---- MODULE Spec2Model ----
(***************************************************************************)
(* Quota-aware job orchestration core of icptiger-back: the BullMQ queue   *)
(* and its two workers, the follow-request and follow-response processors, *)
(* the LinkedIn settings (quota) service and the cron scheduler.           *)
(***************************************************************************)
EXTENDS Integers, Sequences, FiniteSets, TLC

(* ------------------------------ bounds -------------------------------- *)
\* total number of jobs ever added to the queue in one behaviour
MaxJobs == 2
\* number of accepted connections per campaign that await a follow-up
FollowUpsPerCampaign == 1
\* number of persistence errors injected in one behaviour
MaxThrows == 1
\* largest requested amount passed to the quota service in SpecQuota
MaxRequested == 3
\* largest daily cap / usage counter drawn in SpecQuota
MaxLimitQ == 2
MaxUsageQ == 3
\* number of errors injected in one behaviour of SpecRetry
MaxRetryThrows == 3
\* number of jobs added to the queue in one behaviour of SpecWorkers
MaxBurstJobs == 6
\* number of direct calls made on the session service in SpecSession
MaxCalls == 3
\* largest idle time, in ticks, a session is followed for in SpecSession
MaxIdle == 5

(* ------------------------- the modelled world -------------------------- *)
Users == {"u1", "u2"}
Campaigns == {"c1", "c2", "c3"}
\* a table lookup that finds no row
NoRow == [missing |-> TRUE]
None == "none"
System == "system"
ActionTypes == {"connections", "messages", "visits", "inmails"}
JobTypes == {"followRequest", "followResponse", "processPendingJobs"}

Max(a, b) == IF a >= b THEN a ELSE b
Min(a, b) == IF a <= b THEN a ELSE b

(* ---------------------- program constants ------------------------------ *)
DefaultSettings ==
  [max_connections_per_day |-> 30, max_message_per_day |-> 50,
   total_visits_per_day |-> 100, max_inmails_per_day |-> 0]
ZeroUsage == [connections |-> 0, messages |-> 0, visits |-> 0, inmails |-> 0]
DefaultImportLimit == 10
SchedulerImportLimit == 10
Attempts == 3
Concurrency == 5
MaxDurationMs == 3
PLimit == 10
FirstFollowUpLimit == 5
PendingMaxRetries == 3
ProcessableRetryBound == 3
PurgeDays == 3
\* the session timeout (20 * 60 * 1000 ms) in ticks of 10 minutes
SessionTimeout == 2

Workers == {"followRequestWorker", "followResponseWorker"}
WorkerKind == [followRequestWorker |-> "followRequest",
               followResponseWorker |-> "followResponse"]

VARIABLES
  settings,         \* linkedin_settings table: user -> row or NoRow
  usage,            \* daily_usage table, today's rows: user -> row or NoRow
  trial,            \* profiles table: user -> still inside the 7-day trial
  userSockets,      \* SimpleWebsocketGateway.userSockets: user -> socket id, 0: no entry
  sockets,          \* the socket.io connections that are open
  campaigns,        \* linkedin_campaigns table
  connCount,        \* linkedin_connections rows per campaign (count)
  connections,      \* linkedin_connections rows per campaign, in insertion order
  followUps,        \* accepted connections per campaign awaiting a follow-up
  pending,          \* pending_jobs table (set of rows)
  nextPendingId,    \* next id the table assigns
  jobs,             \* the BullMQ queue 'linkedin-automation': sequence of jobs
  connectionsSent,  \* connection/follow actions performed today, per user
  messagesSent,     \* follow-up messages sent today, per user
  throwsLeft,       \* persistence errors still to be injected
  qcall,            \* last call made on the quota service and its result
  sessions,         \* SessionService.sessions: user -> session record or NoRow
  browsers,         \* launched browsers not yet closed, per user
  nextBrowserId,    \* next browser (and session) id
  timers,           \* pending cleanupSession timeouts: [userId, remaining]
  calls,            \* direct calls on the session service, in flight or returned
  lastTick          \* the last scheduler timer body that ran, and what it did

sessionVars == <<sessions, browsers, nextBrowserId, timers, calls>>

vars == <<settings, usage, trial, userSockets, sockets, campaigns, connCount, connections, followUps, pending,
          nextPendingId, jobs, connectionsSent, messagesSent, throwsLeft, qcall,
          sessions, browsers, nextBrowserId, timers, calls, lastTick>>

(* ------------------------ LinkedInSettingsService ---------------------- *)
LoadLinkedInSettings(st, u) == IF st[u] = NoRow THEN DefaultSettings ELSE st[u]

\* the insert of the default row made by loadLinkedInSettings on first read
MaterializeSettings(st, u) == [st EXCEPT ![u] = LoadLinkedInSettings(st, u)]

GetDailyUsage(usg, u) == IF usg[u] = NoRow THEN ZeroUsage ELSE usg[u]

GetRemainingQuotasNoClamp(st, usg, u) ==
  LET s == LoadLinkedInSettings(st, u)
      g == GetDailyUsage(usg, u)
  IN [remainingConnections |-> s.max_connections_per_day - g.connections,
      remainingMessages |-> s.max_message_per_day - g.messages,
      remainingVisits |-> s.total_visits_per_day - g.visits,
      remainingInmails |-> s.max_inmails_per_day - g.inmails]

GetRemainingQuotas(st, usg, u) ==
  LET s == LoadLinkedInSettings(st, u)
      g == GetDailyUsage(usg, u)
  IN [remainingConnections |-> Max(0, s.max_connections_per_day - g.connections),
      remainingMessages |-> Max(0, s.max_message_per_day - g.messages),
      remainingVisits |-> Max(0, s.total_visits_per_day - g.visits),
      remainingInmails |-> Max(0, s.max_inmails_per_day - g.inmails)]

AvailableQuota(q, actionType) ==
  CASE actionType = "connections" -> q.remainingConnections
    [] actionType = "messages" -> q.remainingMessages
    [] actionType = "visits" -> q.remainingVisits
    [] actionType = "inmails" -> q.remainingInmails

HasRemainingQuota(st, usg, u, actionType, requestedCount) ==
  IF actionType \in ActionTypes
    THEN AvailableQuota(GetRemainingQuotas(st, usg, u), actionType) >= requestedCount
    ELSE FALSE

GetMaxActionsForRunNoMin(st, usg, u, actionType, requestedCount) ==
  IF actionType \in ActionTypes
    THEN AvailableQuota(GetRemainingQuotas(st, usg, u), actionType)
    ELSE 0

GetMaxActionsForRun(st, usg, u, actionType, requestedCount) ==
  IF actionType \in ActionTypes
    THEN Min(requestedCount, AvailableQuota(GetRemainingQuotas(st, usg, u), actionType))
    ELSE 0

\* the row createPendingJob inserts; age is the time since created_at in days,
\* rounded up
PendingRow(id, u, c, jobType, actionType, requestedCount) ==
  [id |-> id, user_id |-> u, campaign_id |-> c, job_type |-> jobType,
   action_type |-> actionType, requested_count |-> requestedCount,
   retry_count |-> 0, max_retries |-> PendingMaxRetries, age |-> 0]

CreatePendingJobDropped(pj, id, u, c, jobType, actionType, requestedCount) == pj

CreatePendingJob(pj, id, u, c, jobType, actionType, requestedCount) ==
  pj \cup {PendingRow(id, u, c, jobType, actionType, requestedCount)}

\* rows with retry_count <= 3, oldest first (ids are assigned in creation order)
RECURSIVE SortById(_)
SortById(rows) ==
  IF rows = {} THEN <<>>
  ELSE LET r == CHOOSE x \in rows : \A y \in rows : x.id <= y.id
       IN <<r>> \o SortById(rows \ {r})

GetProcessablePendingJobs(pj) ==
  SortById({p \in pj : p.retry_count <= ProcessableRetryBound})

\* a purge that spares the rows with retries left
CleanupOldPendingJobsExhaustedOnly(pj) ==
  {p \in pj : ~(p.age > PurgeDays /\ p.retry_count >= p.max_retries)}

\* delete ... where created_at < now - 3 days
CleanupOldPendingJobs(pj) == {p \in pj : ~(p.age > PurgeDays)}


(* ------------------------------ SessionService ------------------------- *)
\* The record createSession stores under the user id.  sessionId is
\* `${userId}_${Date.now()}`: the creation number stands for the timestamp.
\* idle is the age of lastActivity in ticks: lastActivity is stamped before
\* page.screenshot() is awaited and the timeout is armed after it, so the stamp
\* already has a positive age when the timer starts, counted as one tick.
\* touched tells whether lastActivity was ever stamped again.
NewSession(b) ==
  [sessionId |-> b, browser |-> b, pageClosed |-> FALSE, idle |-> 1, touched |-> FALSE]

\* getSession / updateSessionActivity: lastActivity = new Date()
Touch(ss, u) ==
  IF ss[u] = NoRow THEN ss ELSE [ss EXCEPT ![u].idle = 0, ![u].touched = TRUE]

IsHealthyAlways(session) == TRUE

\* a session as runWithLogin judges it: browser and page present, page open
IsHealthy(session) == ~session.pageClosed

\* sessions.set(userId, sessionInfo): whatever was stored before is overwritten
SessionsAfterCreate(ss, u, b) == [ss EXCEPT ![u] = NewSession(b)]

\* setTimeout(() => this.cleanupSession(userId), 20 * 60 * 1000)
ArmCleanup(tm, u) == tm \cup {[userId |-> u, remaining |-> SessionTimeout]}

\* closeSession: browser.close() then sessions.delete; when close() throws the
\* error is caught and logged, the delete is skipped and the browser stays
SessionsAfterClose(ss, u, closeThrows) ==
  IF ss[u] = NoRow \/ closeThrows THEN ss ELSE [ss EXCEPT ![u] = NoRow]

BrowsersAfterClose(br, ss, u, closeThrows) ==
  IF ss[u] = NoRow \/ closeThrows THEN br
  ELSE [br EXCEPT ![u] = @ \ {ss[u].browser}]

\* cleanupSession's test: now - lastActivity > timeoutMs
IsExpired(session) == session.idle > SessionTimeout

(* ------------------------------ activity log --------------------------- *)
\* a row of activity_logs; attempt names the attempt of the job that wrote it
Entry(jobType, logLevel, message, attempt) ==
  [job_type |-> jobType, log_level |-> logLevel, message |-> message,
   attempt |-> attempt]

\* SupabaseService.logActivity: one insert.  The table is kept with each job:
\* log is the rows the job's runs wrote, per campaign id, in created_at order
LogActivity(log, c, e) == [log EXCEPT ![c] = Append(@, e)]

LogKeys == Campaigns \cup {System}

(* ------------------------- linkedin_connections ------------------------ *)
\* a person of a result page whose profile url the model does not follow
Someone == "someone"

\* insert({campaign_id, profile_url, ..., status: 'queued'})
ConnectionRow(url) == [profile_url |-> url, status |-> "queued"]

(* ------------------------------ QueueService --------------------------- *)
\* the locals of one processCampaignFollowResponse task, and of the runWithLogin
\* invocation made for a campaign (threw: the error caught by runWithLogin;
\* session: the browser of the session the caller's action is running on, 0
\* outside the action; elapsed: the minutes gone by since the action's batch
\* started, Date.now() - startTime, 0 outside the batch)
NoSub == [pc |-> "none", messageLimit |-> 0, sent |-> 0, todo |-> {}, blocked |-> FALSE,
          threw |-> None, session |-> 0, elapsed |-> 0]

\* queue.add(jobType, {userId, campaignId, jobType, data}): a fresh waiting job.
\* importLimit / pendingJobId are the payload fields the code reads (0 when
\* absent: the code reads data?.importLimit || 10); err and stacktrace are the
\* job's failedReason and stacktrace; activity is the part of activity_logs
\* the job's runs wrote and invited the profile urls in the metadata of its
\* 'info' rows; failedReads names the tables whose reads failed in the current
\* attempt; page is the rest of the people list the for loop is going over
\* and person the one processPersonConnection is working on; the remaining
\* fields are the worker's and processor's locals.
NewJob(jobType, u, c, importLimit, pendingJobId) ==
  [jobType |-> jobType, userId |-> u, campaignId |-> c,
   importLimit |-> importLimit, pendingJobId |-> pendingJobId,
   state |-> "waiting", attemptsMade |-> 0, worker |-> None, invoked |-> FALSE,
   pc |-> "idle", gate |-> "none", requested |-> 0, gateRemaining |-> 0,
   allowance |-> 0, deferredId |-> 0, followed |-> 0, did |-> 0,
   err |-> None, stacktrace |-> <<>>, failedReads |-> {},
   page |-> <<>>, person |-> None, invited |-> <<>>,
   activity |-> [k \in LogKeys |-> <<>>],
   sub |-> [c2 \in Campaigns |-> NoSub]]

AddJob(q, jobType, u, c, importLimit, pendingJobId) ==
  Append(q, NewJob(jobType, u, c, importLimit, pendingJobId))

JobIds == 1..Len(jobs)

\* getWaiting / getActive / getCompleted / getFailed: the four lists the queue
\* service reads; a job waiting for its backoff is in BullMQ's delayed set
GetWaiting == {j \in JobIds : jobs[j].state = "waiting"}
GetActive == {j \in JobIds : jobs[j].state = "active"}
GetCompleted == {j \in JobIds : jobs[j].state = "completed"}
GetFailed == {j \in JobIds : jobs[j].state = "failed"}

(* ------------------------------ initial state -------------------------- *)
SmallSettings ==
  [max_connections_per_day |-> 2, max_message_per_day |-> 1,
   total_visits_per_day |-> 100, max_inmails_per_day |-> 0]

\* Exhausted quota: the day's usage has reached the default caps
ExhaustedUsage == [connections |-> 30, messages |-> 50, visits |-> 0, inmails |-> 0]

\* <<linkedin_settings row, daily_usage row, pending_jobs rows>> of user u1 at
\* the start; the pending row is one an earlier run deferred
FreshQuota == <<SmallSettings, NoRow, {}>>
NearCapQuota ==
  <<NoRow, [connections |-> 28, messages |-> 49, visits |-> 0, inmails |-> 0], {}>>
ExhaustedQuota == <<NoRow, ExhaustedUsage, {}>>
ExhaustedWithPending ==
  <<NoRow, ExhaustedUsage,
    {PendingRow(1, "u1", "c1", "followRequest", "connections", SchedulerImportLimit)}>>
OverrunQuota ==
  <<SmallSettings, [connections |-> 3, messages |-> 2, visits |-> 0, inmails |-> 0], {}>>

QuotaScenarios ==
  {FreshQuota, NearCapQuota, ExhaustedQuota, ExhaustedWithPending, OverrunQuota}

CampaignOrder == <<"c1", "c2", "c3">>

\* linkedin_campaigns rows; the statuses are drawn at the start
CampaignRow(c, st) ==
  CASE c = "c1" -> [user_id |-> "u1", status |-> st, campaign_type |-> "search",
                    total_profiles |-> 3, processed_profiles |-> 0]
    [] c = "c2" -> [user_id |-> "u1", status |-> st, campaign_type |-> "reactions",
                    total_profiles |-> 0, processed_profiles |-> 0]
    [] c = "c3" -> [user_id |-> "u2", status |-> st, campaign_type |-> "search",
                    total_profiles |-> 1, processed_profiles |-> 0]

BothActive == [c1 |-> "active", c2 |-> "active", c3 |-> "paused"]
FirstActive == [c1 |-> "active", c2 |-> "paused", c3 |-> "paused"]
OthersActive == [c1 |-> "paused", c2 |-> "active", c3 |-> "active"]

StatusScenarios == {BothActive, FirstActive, OthersActive}

\* the starts explored: <<quota scenario, campaign statuses, is u1 inside the
\* trial>>
InitScenarios ==
  { <<FreshQuota, BothActive, TRUE>>,
    <<FreshQuota, BothActive, FALSE>>,
    <<NearCapQuota, BothActive, TRUE>>,
    <<ExhaustedQuota, FirstActive, TRUE>>,
    <<ExhaustedWithPending, FirstActive, TRUE>>,
    <<OverrunQuota, OthersActive, TRUE>> }

InitCommon ==
  /\ connCount = [c \in Campaigns |-> 0]
  /\ connections = [c \in Campaigns |-> <<>>]
  /\ followUps = [c \in Campaigns |-> 1..FollowUpsPerCampaign]
  /\ jobs = <<>>
  /\ connectionsSent = [u \in Users |-> 0]
  /\ messagesSent = [u \in Users |-> 0]
  /\ qcall = [op |-> None]
  /\ sessions = [u \in Users |-> NoRow]
  /\ browsers = [u \in Users |-> {}]
  /\ nextBrowserId = 1
  /\ timers = {}
  /\ calls = <<>>
  /\ lastTick = [timer |-> None]

Init ==
  /\ \E sn \in InitScenarios :
        /\ sn[1] \in QuotaScenarios /\ sn[2] \in StatusScenarios
        /\ settings = [u \in Users |-> IF u = "u1" THEN sn[1][1] ELSE SmallSettings]
        /\ usage = [u \in Users |-> IF u = "u1" THEN sn[1][2] ELSE NoRow]
        /\ pending = sn[1][3]
        /\ nextPendingId = Cardinality(sn[1][3]) + 1
        /\ campaigns = [c \in Campaigns |-> CampaignRow(c, sn[2][c])]
        /\ trial = [u \in Users |-> IF u = "u1" THEN sn[3] ELSE TRUE]
        /\ userSockets = [u \in Users |-> 0]
        /\ sockets = {}
  /\ throwsLeft = MaxThrows
  /\ InitCommon

(* ------------------------------ SchedulerService ----------------------- *)
RECURSIVE Dedupe(_, _)
Dedupe(s, seen) ==
  IF s = <<>> THEN <<>>
  ELSE IF Head(s) \in seen THEN Dedupe(Tail(s), seen)
  ELSE <<Head(s)>> \o Dedupe(Tail(s), seen \cup {Head(s)})

IsActiveCampaign(c) == campaigns[c].status = "active"

GetActiveCampaigns == SelectSeq(CampaignOrder, IsActiveCampaign)

GetActiveUsers ==
  LET rows == GetActiveCampaigns
  IN Dedupe([i \in 1..Len(rows) |-> campaigns[rows[i]].user_id], {})

RECURSIVE AddAll(_, _)
AddAll(q, news) == IF news = <<>> THEN q ELSE AddAll(Append(q, Head(news)), Tail(news))

\* the items of a timer body whose queue.add did not throw, in order
KeptItems(news, failing) ==
  LET idx == SelectSeq([i \in 1..Len(news) |-> i], LAMBDA i : i \notin failing)
  IN [k \in 1..Len(idx) |-> news[idx[k]]]

TimerBodyNoIsolation(q, news, failing) ==
  LET ok == {i \in 1..Len(news) : \A k \in 1..i : k \notin failing}
  IN [queue |-> AddAll(q, [k \in 1..Cardinality(ok) |-> news[k]]),
      threw |-> failing # {}]

\* the for loop of a timer body: queue.add for each item in turn, each inside
\* its own try/catch: an add that throws is logged and the loop goes on
TimerBody(q, news, failing) ==
  [queue |-> AddAll(q, KeptItems(news, failing)), threw |-> FALSE]

\* what a timer body did: its items, the adds that threw, where its jobs start
TickRecord(timer, news, failing, first, threw) ==
  [timer |-> timer, first |-> first, failing |-> failing, threw |-> threw,
   items |-> [i \in 1..Len(news) |->
                [jobType |-> news[i].jobType, userId |-> news[i].userId,
                 campaignId |-> news[i].campaignId, pendingJobId |-> news[i].pendingJobId]]]

\* a timer body over the jobs it is to add; queue.add throws for `failing`
RunTimer(timer, news) ==
  /\ Len(news) > 0
  /\ Len(jobs) + Len(news) <= MaxJobs
  /\ \E failing \in SUBSET (1..Len(news)) :
       LET out == TimerBody(jobs, news, failing)
       IN /\ Cardinality(failing) <= throwsLeft
          /\ throwsLeft' = throwsLeft - Cardinality(failing)
          /\ jobs' = out.queue
          /\ lastTick' = TickRecord(timer, news, failing, Len(jobs) + 1, out.threw)
  /\ UNCHANGED <<settings, usage, trial, userSockets, sockets, campaigns, connCount, connections, followUps, pending,
                 nextPendingId, connectionsSent, messagesSent, qcall,
                 sessionVars>>

\* @Cron every 15 minutes
ProcessFollowRequests ==
  LET cs == GetActiveCampaigns
      news == [i \in 1..Len(cs) |->
                 NewJob("followRequest", campaigns[cs[i]].user_id, cs[i],
                        SchedulerImportLimit, 0)]
  IN RunTimer("follow_requests", news)

\* @Cron every 13 minutes
ProcessFollowResponses ==
  LET us == GetActiveUsers
      news == [i \in 1..Len(us) |-> NewJob("followResponse", us[i], System, 0, 0)]
  IN RunTimer("follow_responses", news)

\* @Cron hourly: one processPendingJobs job per processable pending row; the
\* rows themselves are only read
ProcessPendingJobs ==
  LET ps == GetProcessablePendingJobs(pending)
      news == [i \in 1..Len(ps) |->
                 NewJob("processPendingJobs", ps[i].user_id, System, 0, ps[i].id)]
  IN RunTimer("pending_jobs", news)

(* ------------------------------ JobsController ------------------------- *)
ApiRequests ==
  { [jobType |-> "followRequest", userId |-> "u1", campaignId |-> "c1", importLimit |-> 1],
    [jobType |-> "followRequest", userId |-> "u2", campaignId |-> "c3", importLimit |-> 0] }

\* POST /api/jobs with body r, while fewer than cap jobs were ever added
SubmitJob(r, cap) ==
  /\ Len(jobs) < cap
  /\ jobs' = AddJob(jobs, r.jobType, r.userId, r.campaignId, r.importLimit, 0)
  /\ UNCHANGED <<settings, usage, trial, userSockets, sockets, campaigns, connCount, connections, followUps, pending,
                 nextPendingId, connectionsSent, messagesSent, throwsLeft, qcall,
                 sessionVars, lastTick>>

\* POST /api/jobs
CreateJob == \E r \in ApiRequests : SubmitJob(r, MaxJobs)


(* ------------------------------ WorkerService -------------------------- *)
ActiveCount(w) ==
  Cardinality({j \in JobIds : jobs[j].state = "active" /\ jobs[j].worker = w})

TakeUnbounded(w, j) ==
  /\ jobs[j].state = "waiting"
  /\ \A i \in 1..(j - 1) : jobs[i].state # "waiting"
  /\ jobs' = [jobs EXCEPT ![j].state = "active", ![j].worker = w,
                          ![j].invoked = (@ \/ jobs[j].jobType = WorkerKind[w]),
                          ![j].pc = IF jobs[j].jobType = WorkerKind[w]
                                      THEN "process" ELSE "return",
                          ![j].sub = [c \in Campaigns |-> NoSub],
                          ![j].failedReads = {}]
  /\ UNCHANGED <<settings, usage, trial, userSockets, sockets, campaigns, connCount, connections, followUps, pending,
                 nextPendingId, connectionsSent, messagesSent, throwsLeft, qcall,
                 sessionVars, lastTick>>

\* A worker of the queue takes the oldest waiting job, whatever its kind, and
\* runs its own handler on it: the handler calls the processor only when
\* job.data.jobType is the worker's kind and returns at once otherwise.  The
\* locals of an earlier attempt are gone.
Take(w, j) ==
  /\ jobs[j].state = "waiting"
  /\ \A i \in 1..(j - 1) : jobs[i].state # "waiting"
  /\ ActiveCount(w) < Concurrency
  /\ jobs' = [jobs EXCEPT ![j].state = "active", ![j].worker = w,
                          ![j].invoked = (@ \/ jobs[j].jobType = WorkerKind[w]),
                          ![j].pc = IF jobs[j].jobType = WorkerKind[w]
                                      THEN "process" ELSE "return",
                          ![j].sub = [c \in Campaigns |-> NoSub],
                          ![j].failedReads = {}]
  /\ UNCHANGED <<settings, usage, trial, userSockets, sockets, campaigns, connCount, connections, followUps, pending,
                 nextPendingId, connectionsSent, messagesSent, throwsLeft, qcall,
                 sessionVars, lastTick>>

\* the handler returned: the job moves to completed
MoveToCompleted(j) ==
  /\ jobs[j].state = "active"
  /\ jobs[j].pc = "return"
  /\ jobs' = [jobs EXCEPT ![j].state = "completed", ![j].pc = "idle"]
  /\ UNCHANGED <<settings, usage, trial, userSockets, sockets, campaigns, connCount, connections, followUps, pending,
                 nextPendingId, connectionsSent, messagesSent, throwsLeft, qcall,
                 sessionVars, lastTick>>

\* the handler threw: the error is recorded on the job, which is retried after
\* the backoff while attempts remain and is failed otherwise
MoveToFailed(j) ==
  /\ jobs[j].state = "active"
  /\ jobs[j].pc = "throw"
  /\ jobs' = [jobs EXCEPT ![j].attemptsMade = @ + 1,
                          ![j].state = IF jobs[j].attemptsMade + 1 < Attempts
                                         THEN "delayed" ELSE "failed",
                          ![j].stacktrace = Append(@, jobs[j].err),
                          ![j].pc = "idle"]
  /\ UNCHANGED <<settings, usage, trial, userSockets, sockets, campaigns, connCount, connections, followUps, pending,
                 nextPendingId, connectionsSent, messagesSent, throwsLeft, qcall,
                 sessionVars, lastTick>>

\* the backoff delay elapsed
Promote(j) ==
  /\ jobs[j].state = "delayed"
  /\ jobs' = [jobs EXCEPT ![j].state = "waiting"]
  /\ UNCHANGED <<settings, usage, trial, userSockets, sockets, campaigns, connCount, connections, followUps, pending,
                 nextPendingId, connectionsSent, messagesSent, throwsLeft, qcall,
                 sessionVars, lastTick>>

CheckTrialStatusAlways(u) == TRUE

\* checkTrialStatus: the profile is at most 7 days old (false when the profile
\* cannot be read)
CheckTrialStatus(u) == trial[u]

(* ------------------------------ BaseProcessor -------------------------- *)
\* the number of the attempt a job is making
Attempt(job) == job.attemptsMade + 1

\* handleJobError: an error row under the job's own campaign id and kind
HandleJobError(log, job) ==
  LogActivity(log, job.campaignId, Entry(job.jobType, "error", "Job failed", Attempt(job)))

(* ------------------------------ LinkedInAutomationService -------------- *)
\* the three rows runWithLogin writes, all with job_type 'automation'
StartedEntry(job) ==
  Entry("automation", "info", "LinkedIn automation session started", Attempt(job))
CompletedEntry(job) ==
  Entry("automation", "info", "LinkedIn automation completed successfully", Attempt(job))
FailedEntry(job) ==
  Entry("automation", "error", "LinkedIn automation failed", Attempt(job))

RunWithLoginCatchSwallow(err) == [logged |-> TRUE, rethrown |-> FALSE, error |-> err]

\* the catch block of runWithLogin: the error is logged (logger and activity
\* row) and thrown again
RunWithLoginCatch(err) == [logged |-> TRUE, rethrown |-> TRUE, error |-> err]

\* an error err reaches the catch block of the runWithLogin invocation made by
\* job j for campaign c; when it is thrown again, process() catches it, calls
\* handleJobError and throws it to the worker
ThrowInRunWithLogin(j, c, err) ==
  LET out == RunWithLoginCatch(err)
      log1 == IF out.logged THEN LogActivity(jobs[j].activity, c, FailedEntry(jobs[j]))
              ELSE jobs[j].activity
  IN IF out.rethrown
       THEN jobs' = [jobs EXCEPT ![j].pc = "throw", ![j].err = out.error,
                                 ![j].sub[c].pc = "rethrown", ![j].sub[c].threw = err,
                                 ![j].sub[c].session = 0, ![j].sub[c].elapsed = 0,
                                 ![j].activity = HandleJobError(log1, jobs[j])]
       ELSE jobs' = [jobs EXCEPT ![j].pc = "return",
                                 ![j].sub[c].pc = "done", ![j].sub[c].threw = err,
                                 ![j].sub[c].session = 0, ![j].sub[c].elapsed = 0,
                                 ![j].activity = log1]

\* job j is inside the runWithLogin invocation it made for campaign c
InRunWithLogin(j, c) ==
  /\ jobs[j].state = "active"
  /\ \/ jobs[j].jobType = "followRequest" /\ jobs[j].pc = "runWithLogin" /\ jobs[j].campaignId = c
     \/ jobs[j].jobType = "followResponse" /\ jobs[j].pc = "campaigns"

\* the start of runWithLogin, called by job j for campaign c; job is the job
\* as the caller left it.  getSession: a session that is there is touched
\* and, when healthy, used (the 'started' row is written and the action
\* called); an unhealthy one is closed; with no session left a browser launch
\* is begun.  The step is taken together with the caller's step before it:
\* the waits between the two touch nothing that another task reads or writes.
RunWithLoginAcquire(j, c, job) ==
  LET u == campaigns[c].user_id
      touched == Touch(sessions, u)
  IN \/ /\ sessions[u] = NoRow
        /\ jobs' = [jobs EXCEPT ![j] = [job EXCEPT !.sub[c].pc = "creating"]]
        /\ UNCHANGED <<sessions, browsers, throwsLeft>>
     \/ /\ sessions[u] # NoRow /\ IsHealthy(sessions[u])
        /\ sessions' = touched
        /\ jobs' = [jobs EXCEPT ![j] =
                      [job EXCEPT !.sub[c].pc = "action",
                                  !.sub[c].session = sessions[u].browser,
                                  !.activity = LogActivity(@, c, StartedEntry(job))]]
        /\ UNCHANGED <<browsers, throwsLeft>>
     \/ /\ sessions[u] # NoRow /\ ~IsHealthy(sessions[u])
        /\ \E closeThrows \in BOOLEAN :
             /\ closeThrows => throwsLeft > 0
             /\ throwsLeft' = IF closeThrows THEN throwsLeft - 1 ELSE throwsLeft
             /\ sessions' = SessionsAfterClose(touched, u, closeThrows)
             /\ browsers' = BrowsersAfterClose(browsers, touched, u, closeThrows)
        /\ jobs' = [jobs EXCEPT ![j] = [job EXCEPT !.sub[c].pc = "creating"]]

\* createSession finishes for runWithLogin: the browser is launched, the login
\* page loaded, the record stored under the user id and the cleanup armed; the
\* new session is healthy, the 'started' row is written and the action called.
\* Or the launch (no browser) or the page load (a browser nobody holds) throws.
CreateSessionFinish(j, c) ==
  LET u == campaigns[c].user_id
      b == nextBrowserId
  IN /\ InRunWithLogin(j, c)
     /\ jobs[j].sub[c].pc = "creating"
     /\ \/ /\ sessions' = SessionsAfterCreate(sessions, u, b)
           /\ browsers' = [browsers EXCEPT ![u] = @ \cup {b}]
           /\ nextBrowserId' = b + 1
           /\ timers' = ArmCleanup(timers, u)
           /\ jobs' = [jobs EXCEPT ![j].sub[c].pc = "action", ![j].sub[c].session = b,
                                   ![j].activity = LogActivity(@, c, StartedEntry(jobs[j]))]
           /\ UNCHANGED throwsLeft
        \/ /\ jobs[j].jobType = "followRequest"
           /\ throwsLeft > 0 /\ throwsLeft' = throwsLeft - 1
           /\ \E launched \in BOOLEAN :
                /\ browsers' = IF launched THEN [browsers EXCEPT ![u] = @ \cup {b}] ELSE browsers
                /\ nextBrowserId' = IF launched THEN b + 1 ELSE b
           /\ ThrowInRunWithLogin(j, c, "SessionError")
           /\ UNCHANGED <<sessions, timers>>
     /\ UNCHANGED <<settings, usage, trial, userSockets, sockets, campaigns, connCount, connections, followUps, pending,
                    nextPendingId, connectionsSent, messagesSent, qcall, calls, lastTick>>

(* ------------------------------ FollowRequestProcessor ----------------- *)
Unch_Db == UNCHANGED <<usage, trial, userSockets, sockets, connCount, connections, followUps, connectionsSent, messagesSent,
                       qcall, nextBrowserId, timers, calls, lastTick>>

\* a processor that never takes the deferral branch
LimitReachedNever(maxConnectionsForRun) == FALSE

\* if (maxConnectionsForRun <= 0): the run is deferred
LimitReached(maxConnectionsForRun) == maxConnectionsForRun <= 0

\* process(job) up to the call of runWithLogin: trial check, campaign lookup,
\* account lookup, the quota gate, and the deferral when the gate gives <= 0.
\* failing is the set of tables whose reads return an error in this attempt:
\* checkTrialStatus answers false when the profile read fails,
\* loadLinkedInSettings answers the defaults (its insert fails as well) and
\* getDailyUsage answers zero usage, each as for a row that is not there
FollowRequestProcessReading(j, failing) ==
  LET job == [jobs[j] EXCEPT !.failedReads = failing]
      u == job.userId
      c == job.campaignId
      isInTrial == "profiles" \notin failing /\ CheckTrialStatus(u)
      st == IF "linkedin_settings" \in failing THEN [settings EXCEPT ![u] = NoRow]
            ELSE settings
      usg == IF "daily_usage" \in failing THEN [usage EXCEPT ![u] = NoRow] ELSE usage
      loaded == IF "linkedin_settings" \in failing THEN settings
                ELSE MaterializeSettings(settings, u)
      importLimit == IF job.importLimit = 0 THEN DefaultImportLimit ELSE job.importLimit
      maxConnectionsForRun == GetMaxActionsForRun(st, usg, u, "connections", importLimit)
      quotas == GetRemainingQuotas(st, usg, u)
  IN
  /\ job.state = "active" /\ job.pc = "process" /\ job.jobType = "followRequest"
  /\ \/ \* the user is past the trial: return
        /\ ~isInTrial
        /\ jobs' = [jobs EXCEPT ![j].failedReads = failing, ![j].pc = "return"]
        /\ UNCHANGED <<settings, pending, nextPendingId, campaigns, throwsLeft,
                       sessions, browsers>>
     \/ \* getCampaign / getLinkedInAccount throws: handleJobError, rethrow
        /\ isInTrial
        /\ \/ c \notin Campaigns /\ UNCHANGED throwsLeft
           \/ c \in Campaigns /\ throwsLeft > 0 /\ throwsLeft' = throwsLeft - 1
        /\ jobs' = [jobs EXCEPT ![j].failedReads = failing, ![j].pc = "throw", ![j].err = "PersistenceError",
                                ![j].activity = HandleJobError(@, job)]
        /\ UNCHANGED <<settings, pending, nextPendingId, campaigns, sessions, browsers>>
     \/ \* the campaign is not active: return
        /\ isInTrial /\ c \in Campaigns /\ campaigns[c].status # "active"
        /\ jobs' = [jobs EXCEPT ![j].failedReads = failing, ![j].pc = "return"]
        /\ UNCHANGED <<settings, pending, nextPendingId, campaigns, throwsLeft,
                       sessions, browsers>>
     \/ \* the gate gives nothing: createPendingJob, log, return
        /\ isInTrial /\ c \in Campaigns /\ campaigns[c].status = "active"
        /\ LimitReached(maxConnectionsForRun)
        /\ settings' = loaded
        /\ pending' = CreatePendingJob(pending, nextPendingId, u, c,
                                       "followRequest", "connections", importLimit)
        /\ nextPendingId' = nextPendingId + 1
        /\ jobs' = [jobs EXCEPT ![j].failedReads = failing, ![j].pc = "return", ![j].gate = "deferred",
                                ![j].activity = LogActivity(@, c,
                                   Entry("followRequest", "info",
                                         "Daily connection limit reached", Attempt(job))),
                                ![j].requested = importLimit,
                                ![j].gateRemaining = quotas.remainingConnections,
                                ![j].allowance = maxConnectionsForRun,
                                ![j].deferredId = nextPendingId, ![j].did = 0]
        /\ UNCHANGED <<campaigns, throwsLeft, sessions, browsers>>
     \/ \* the gate gives nothing and the insert fails: createPendingJob throws
        /\ isInTrial /\ c \in Campaigns /\ campaigns[c].status = "active"
        /\ LimitReached(maxConnectionsForRun)
        /\ throwsLeft > 0 /\ throwsLeft' = throwsLeft - 1
        /\ settings' = loaded
        /\ jobs' = [jobs EXCEPT ![j].failedReads = failing, ![j].pc = "throw", ![j].gate = "insertFailed",
                                ![j].activity = HandleJobError(@, job),
                                ![j].err = "PersistenceError",
                                ![j].requested = importLimit,
                                ![j].gateRemaining = quotas.remainingConnections,
                                ![j].allowance = maxConnectionsForRun,
                                ![j].deferredId = 0, ![j].did = 0]
        /\ UNCHANGED <<pending, nextPendingId, campaigns, sessions, browsers>>
     \/ \* the gate gives a positive allowance: on to runWithLogin
        /\ isInTrial /\ c \in Campaigns /\ campaigns[c].status = "active"
        /\ ~LimitReached(maxConnectionsForRun)
        /\ settings' = loaded
        /\ RunWithLoginAcquire(j, c,
              [job EXCEPT !.pc = "runWithLogin", !.gate = "run",
                          !.requested = importLimit,
                          !.gateRemaining = quotas.remainingConnections,
                          !.allowance = maxConnectionsForRun,
                          !.deferredId = 0, !.did = 0, !.sub[c] = NoSub])
        /\ UNCHANGED <<pending, nextPendingId, campaigns>>
  /\ Unch_Db

FollowRequestProcess(j) == FollowRequestProcessReading(j, {})

\* runWithLogin hands the page to sendFollowRequests, which first counts the
\* campaign's linkedin_connections rows into 'followed'
SendFollowRequestsStart(j) ==
  /\ InRunWithLogin(j, jobs[j].campaignId)
  /\ jobs[j].jobType = "followRequest"
  /\ jobs[j].sub[jobs[j].campaignId].pc = "action"
  /\ jobs' = [jobs EXCEPT ![j].followed = connCount[jobs[j].campaignId], ![j].pc = "outer"]
  /\ UNCHANGED <<settings, pending, nextPendingId, campaigns, throwsLeft>>
  /\ UNCHANGED <<sessions, browsers>>
  /\ Unch_Db

\* the while condition of processSearchCampaign / processReactionsCampaign
\* holds (time is left): a page of people is read
EnterPage(j) ==
  LET job == jobs[j]
      c == job.campaignId
  IN /\ job.state = "active" /\ job.pc = "outer"
     /\ job.followed < job.allowance
     /\ campaigns[c].campaign_type = "search" => job.followed < campaigns[c].total_profiles
     /\ job.sub[c].elapsed < MaxDurationMs
     /\ jobs' = [jobs EXCEPT ![j].pc = "inner"]
     /\ UNCHANGED <<settings, pending, nextPendingId, campaigns, throwsLeft>>
     /\ UNCHANGED <<sessions, browsers>>
     /\ Unch_Db

\* the test made before each person: elapsed > maxDurationMs in the search,
\* event and csv loops, elapsed >= maxDurationMs in the reactions and comments
\* loops
TimeIsUp(campaignType, elapsed) ==
  IF campaignType \in {"reactions", "comments"} THEN elapsed >= MaxDurationMs
  ELSE elapsed > MaxDurationMs

\* processPersonConnection returns true for the next person of the page: the
\* button is clicked, the linkedin_connections row inserted, the activity row
\* written, followed++ and processed_profiles written
ProcessPerson(j) ==
  LET job == jobs[j]
      c == job.campaignId
      owner == campaigns[c].user_id
  IN /\ job.state = "active" /\ job.pc = "inner"
     /\ job.followed < job.allowance
     /\ ~TimeIsUp(campaigns[c].campaign_type, job.sub[c].elapsed)
     /\ jobs' = [jobs EXCEPT ![j].followed = @ + 1, ![j].did = @ + 1,
                             ![j].invited = Append(@, Someone),
                             ![j].activity = LogActivity(@, c,
                                Entry("followRequest", "info", "invitation sent",
                                      Attempt(job)))]
     /\ connCount' = [connCount EXCEPT ![c] = @ + 1]
     /\ connections' = [connections EXCEPT ![c] = Append(@, ConnectionRow(Someone))]
     /\ connectionsSent' = [connectionsSent EXCEPT ![owner] = @ + 1]
     /\ campaigns' = [campaigns EXCEPT ![c].processed_profiles = job.followed + 1]
     /\ UNCHANGED <<settings, usage, trial, userSockets, sockets, followUps, pending, nextPendingId,
                    messagesSent, throwsLeft, qcall, sessionVars, lastTick>>

\* the page is exhausted and there is a next page (or the list is scrolled)
NextPage(j) ==
  /\ jobs[j].state = "active" /\ jobs[j].pc = "inner"
  /\ jobs' = [jobs EXCEPT ![j].pc = "outer"]
  /\ UNCHANGED <<settings, pending, nextPendingId, campaigns, throwsLeft>>
  /\ UNCHANGED <<sessions, browsers>>
  /\ Unch_Db

\* the loop ends (limit reached, time box elapsed or no next page):
\* sendFollowRequests returns, runWithLogin writes the 'completed' row and
\* returns, process returns
SendFollowRequestsReturn(j) ==
  /\ jobs[j].state = "active" /\ jobs[j].pc \in {"outer", "inner"}
  /\ jobs' = [jobs EXCEPT ![j].pc = "return", ![j].page = <<>>, ![j].person = None, ![j].sub[jobs[j].campaignId].pc = "done",
                          ![j].sub[jobs[j].campaignId].session = 0,
                          ![j].sub[jobs[j].campaignId].elapsed = 0,
                          ![j].activity = LogActivity(@, jobs[j].campaignId,
                                                      CompletedEntry(jobs[j]))]
  /\ UNCHANGED <<settings, pending, nextPendingId, campaigns, throwsLeft>>
  /\ UNCHANGED <<sessions, browsers>>
  /\ Unch_Db

\* a page operation of the action throws (page.goto, waitForSelector, $$eval
\* outside processPersonConnection): the error leaves sendFollowRequests and
\* reaches the catch block of runWithLogin
ActionThrows(j) ==
  /\ jobs[j].state = "active" /\ jobs[j].pc = "outer"
  /\ throwsLeft > 0 /\ throwsLeft' = throwsLeft - 1
  /\ ThrowInRunWithLogin(j, jobs[j].campaignId, "ActionFailed")
  /\ UNCHANGED <<settings, pending, nextPendingId, campaigns>>
  /\ UNCHANGED <<sessions, browsers>>
  /\ Unch_Db


(* ------------------------------ FollowResponseProcessor ---------------- *)
\* campaigns of the user with status active or paused (inside the date window)
GetActiveCampaignsForUser(u) ==
  {c \in Campaigns : campaigns[c].user_id = u /\ campaigns[c].status \in {"active", "paused"}}

\* the rows getConnectionsNeedingFollowUp returns: at most limit(5) of them
ConnectionsNeedingFollowUp(c) ==
  IF Cardinality(followUps[c]) <= FirstFollowUpLimit THEN followUps[c]
  ELSE CHOOSE s \in SUBSET followUps[c] : Cardinality(s) = FirstFollowUpLimit

Unch_Resp == UNCHANGED <<usage, trial, userSockets, sockets, campaigns, connCount, connections, pending, nextPendingId,
                         connectionsSent, qcall, nextBrowserId, timers, calls, lastTick>>

\* process(job) up to Promise.all: trial check, campaign list, one limited
\* task per campaign
FollowResponseProcess(j) ==
  LET job == jobs[j]
      u == job.userId
      cs == GetActiveCampaignsForUser(u)
  IN /\ job.state = "active" /\ job.pc = "process" /\ job.jobType = "followResponse"
     /\ IF ~trial[u] \/ cs = {}
          THEN jobs' = [jobs EXCEPT ![j].pc = "return"]
          ELSE jobs' = [jobs EXCEPT ![j].pc = "campaigns",
                          ![j].sub = [c \in Campaigns |->
                                        IF c \in cs THEN [NoSub EXCEPT !.pc = "queued"]
                                        ELSE NoSub]]
     /\ UNCHANGED <<settings, followUps, messagesSent>>
     /\ UNCHANGED <<sessions, browsers, throwsLeft>>
     /\ Unch_Resp

RunningSubs(job) == {c \in Campaigns : job.sub[c].pc \in {"creating", "action"}}

\* processCampaignFollowResponse(campaign) up to the first wait inside
\* runWithLogin: profile and trial check, account, the remaining-messages
\* check, the follow-up query
ProcessCampaignFollowResponse(j, c) ==
  LET job == jobs[j]
      owner == campaigns[c].user_id
      quotas == GetRemainingQuotas(settings, usage, owner)
      conns == ConnectionsNeedingFollowUp(c)
  IN /\ job.state = "active" /\ job.pc = "campaigns" /\ job.sub[c].pc = "queued"
     /\ Cardinality(RunningSubs(job)) < PLimit
     /\ settings' = IF trial[owner] THEN MaterializeSettings(settings, owner) ELSE settings
     /\ IF ~trial[owner] \/ quotas.remainingMessages <= 0 \/ conns = {}
          THEN /\ jobs' = [jobs EXCEPT ![j].sub[c] =
                             [NoSub EXCEPT !.pc = "done",
                                           !.blocked = (trial[owner]
                                                        /\ quotas.remainingMessages <= 0)]]
               /\ UNCHANGED <<sessions, browsers, throwsLeft>>
          ELSE RunWithLoginAcquire(j, c,
                 [job EXCEPT !.sub[c] = [NoSub EXCEPT !.messageLimit = quotas.remainingMessages,
                                                      !.todo = conns]])
     /\ UNCHANGED <<followUps, messagesSent>>
     /\ Unch_Resp

\* one iteration of the loop of sendFollowUpMessages: the message is sent, the
\* connection stamped and the activity row written, or sendMessage throws and
\* the error is logged
SendFollowUpMessage(j, c) ==
  LET job == jobs[j]
      owner == campaigns[c].user_id
  IN /\ job.state = "active" /\ job.pc = "campaigns" /\ job.sub[c].pc = "action"
     /\ job.sub[c].sent < job.sub[c].messageLimit
     /\ \E x \in job.sub[c].todo :
          \/ /\ jobs' = [jobs EXCEPT ![j].sub[c].todo = @ \ {x}, ![j].sub[c].sent = @ + 1,
                                     ![j].activity = LogActivity(@, c,
                                        Entry("followResponse", "info",
                                              "follow-up message sent", Attempt(job)))]
             /\ messagesSent' = [messagesSent EXCEPT ![owner] = @ + 1]
             /\ followUps' = [followUps EXCEPT ![c] = @ \ {x}]
          \/ /\ jobs' = [jobs EXCEPT ![j].sub[c].todo = @ \ {x},
                                     ![j].activity = LogActivity(@, c,
                                        Entry("followResponse", "error",
                                              "Failed to send follow-up message",
                                              Attempt(job)))]
             /\ UNCHANGED <<messagesSent, followUps>>
     /\ UNCHANGED settings
     /\ UNCHANGED <<sessions, browsers, throwsLeft>>
     /\ Unch_Resp

\* the loop ends (list exhausted or message limit reached): sendFollowUpMessages
\* returns, runWithLogin writes the 'completed' row and returns, and so does
\* processCampaignFollowResponse
CampaignFollowResponseReturn(j, c) ==
  LET job == jobs[j]
  IN /\ job.state = "active" /\ job.pc = "campaigns" /\ job.sub[c].pc = "action"
     /\ job.sub[c].todo = {} \/ job.sub[c].sent >= job.sub[c].messageLimit
     /\ jobs' = [jobs EXCEPT ![j].sub[c].pc = "done", ![j].sub[c].session = 0,
                             ![j].sub[c].elapsed = 0,
                             ![j].activity = LogActivity(@, c, CompletedEntry(job))]
     /\ UNCHANGED <<settings, followUps, messagesSent>>
     /\ UNCHANGED <<sessions, browsers, throwsLeft>>
     /\ Unch_Resp

\* Promise.all resolved: process returns
FollowResponseReturn(j) ==
  /\ jobs[j].state = "active" /\ jobs[j].pc = "campaigns"
  /\ \A c \in Campaigns : jobs[j].sub[c].pc \in {"none", "done"}
  /\ jobs' = [jobs EXCEPT ![j].pc = "return"]
  /\ UNCHANGED <<settings, followUps, messagesSent>>
  /\ UNCHANGED <<sessions, browsers, throwsLeft>>
  /\ Unch_Resp

(* ------------------------------ specification -------------------------- *)
Next ==
  \/ ProcessFollowRequests
  \/ ProcessFollowResponses
  \/ ProcessPendingJobs
  \/ CreateJob
  \/ \E w \in Workers, j \in JobIds : Take(w, j)
  \/ \E j \in JobIds : MoveToCompleted(j)
  \/ \E j \in JobIds : MoveToFailed(j)
  \/ \E j \in JobIds : Promote(j)
  \/ \E j \in JobIds : FollowRequestProcess(j)
  \/ \E j \in JobIds, c \in Campaigns : CreateSessionFinish(j, c)
  \/ \E j \in JobIds : SendFollowRequestsStart(j)
  \/ \E j \in JobIds : EnterPage(j)
  \/ \E j \in JobIds : ProcessPerson(j)
  \/ \E j \in JobIds : NextPage(j)
  \/ \E j \in JobIds : SendFollowRequestsReturn(j)
  \/ \E j \in JobIds : ActionThrows(j)
  \/ \E j \in JobIds : FollowResponseProcess(j)
  \/ \E j \in JobIds, c \in Campaigns : ProcessCampaignFollowResponse(j, c)
  \/ \E j \in JobIds, c \in Campaigns : SendFollowUpMessage(j, c)
  \/ \E j \in JobIds, c \in Campaigns : CampaignFollowResponseReturn(j, c)
  \/ \E j \in JobIds : FollowResponseReturn(j)

Spec == Init /\ [][Next]_vars


(* ------------- the quota service called on arbitrary tables ------------- *)
QuotaLimits == {0, MaxLimitQ}
QuotaUsages == {0, 1, MaxUsageQ}

SettingsRows ==
  [max_connections_per_day : QuotaLimits, max_message_per_day : QuotaLimits,
   total_visits_per_day : QuotaLimits, max_inmails_per_day : QuotaLimits]

UsageRows ==
  [connections : QuotaUsages, messages : QuotaUsages,
   visits : QuotaUsages, inmails : QuotaUsages]

InitQuota ==
  /\ \E s \in SettingsRows \cup {NoRow}, g \in UsageRows \cup {NoRow} :
        /\ settings = [u \in Users |-> IF u = "u1" THEN s ELSE NoRow]
        /\ usage = [u \in Users |-> IF u = "u1" THEN g ELSE NoRow]
  /\ pending = {}
  /\ nextPendingId = 1
  /\ trial = [u \in Users |-> TRUE]
  /\ userSockets = [u \in Users |-> 0]
  /\ sockets = {}
  /\ campaigns = [c \in Campaigns |-> CampaignRow(c, "active")]
  /\ throwsLeft = 0
  /\ InitCommon

\* one call per behaviour: the operations are applied to the drawn tables
Unch_Quota ==
  /\ qcall.op = None
  /\ UNCHANGED <<usage, trial, userSockets, sockets, campaigns, connCount, connections, followUps, pending,
                 nextPendingId, jobs, connectionsSent, messagesSent, throwsLeft,
                 sessionVars, lastTick>>

CallGetRemainingQuotas(u) ==
  /\ qcall' = [op |-> "getRemainingQuotas", userId |-> u,
               ret |-> GetRemainingQuotas(settings, usage, u)]
  /\ settings' = MaterializeSettings(settings, u)
  /\ Unch_Quota

CallHasRemainingQuota(u, actionType, requestedCount) ==
  /\ qcall' = [op |-> "hasRemainingQuota", userId |-> u, actionType |-> actionType,
               requestedCount |-> requestedCount,
               ret |-> HasRemainingQuota(settings, usage, u, actionType, requestedCount)]
  /\ settings' = MaterializeSettings(settings, u)
  /\ Unch_Quota

CallGetMaxActionsForRun(u, actionType, requestedCount) ==
  /\ qcall' = [op |-> "getMaxActionsForRun", userId |-> u, actionType |-> actionType,
               requestedCount |-> requestedCount,
               ret |-> GetMaxActionsForRun(settings, usage, u, actionType, requestedCount)]
  /\ settings' = MaterializeSettings(settings, u)
  /\ Unch_Quota

NextQuota ==
  \/ \E u \in Users : CallGetRemainingQuotas(u)
  \/ \E u \in Users, t \in ActionTypes, r \in 0..MaxRequested : CallHasRemainingQuota(u, t, r)
  \/ \E u \in Users, t \in ActionTypes, r \in 0..MaxRequested : CallGetMaxActionsForRun(u, t, r)

SpecQuota == InitQuota /\ [][NextQuota]_vars


(* ------------- retries: one job, several injected errors ------------- *)
\* the request the job is made with
RetryRequest ==
  [jobType |-> "followRequest", userId |-> "u1", campaignId |-> "c1", importLimit |-> 1]

InitRetry ==
  /\ settings = [u \in Users |-> SmallSettings]
  /\ usage = [u \in Users |-> NoRow]
  /\ pending = {}
  /\ nextPendingId = 1
  /\ trial = [u \in Users |-> TRUE]
  /\ userSockets = [u \in Users |-> 0]
  /\ sockets = {}
  /\ campaigns = [c \in Campaigns |-> CampaignRow(c, "active")]
  /\ throwsLeft = MaxRetryThrows
  /\ InitCommon

NextRetry ==
  \/ SubmitJob(RetryRequest, 1)
  \/ \E w \in Workers, j \in JobIds : Take(w, j)
  \/ \E j \in JobIds : MoveToCompleted(j)
  \/ \E j \in JobIds : MoveToFailed(j)
  \/ \E j \in JobIds : Promote(j)
  \/ \E j \in JobIds : FollowRequestProcess(j)
  \/ \E j \in JobIds, c \in Campaigns : CreateSessionFinish(j, c)
  \/ \E j \in JobIds : SendFollowRequestsStart(j)
  \/ \E j \in JobIds : EnterPage(j)
  \/ \E j \in JobIds : ProcessPerson(j)
  \/ \E j \in JobIds : NextPage(j)
  \/ \E j \in JobIds : SendFollowRequestsReturn(j)
  \/ \E j \in JobIds : ActionThrows(j)

SpecRetry == InitRetry /\ [][NextRetry]_vars

(* ------------- the workers under a burst of jobs ----------------------- *)
\* the request every job of the burst is made with
BurstRequest ==
  [jobType |-> "followRequest", userId |-> "u1", campaignId |-> "c1", importLimit |-> 1]

\* every profile is older than the 7-day trial: the processors return at once
InitWorkers ==
  /\ settings = [u \in Users |-> NoRow]
  /\ usage = [u \in Users |-> NoRow]
  /\ pending = {}
  /\ nextPendingId = 1
  /\ trial = [u \in Users |-> FALSE]
  /\ userSockets = [u \in Users |-> 0]
  /\ sockets = {}
  /\ campaigns = [c \in Campaigns |-> CampaignRow(c, "active")]
  /\ throwsLeft = 0
  /\ InitCommon

NextWorkers ==
  \/ SubmitJob(BurstRequest, MaxBurstJobs)
  \/ \E w \in Workers, j \in JobIds : Take(w, j)
  \/ \E j \in JobIds : FollowRequestProcess(j)
  \/ \E j \in JobIds : MoveToCompleted(j)

SpecWorkers == InitWorkers /\ [][NextWorkers]_vars

(* ------------- the session service called directly, and its timers ----- *)
CallIds == 1..Len(calls)

\* the calls still inside createSession for user u
Creating(u) == {k \in CallIds : calls[k].userId = u /\ calls[k].pc = "creating"}

Unch_Session == UNCHANGED <<settings, usage, trial, userSockets, sockets, campaigns, connCount, connections, followUps,
                            pending, nextPendingId, jobs, connectionsSent, messagesSent,
                            qcall, lastTick>>

\* getOrCreateSession(u) up to its first real wait: getSession, and with no
\* session stored the browser launch of createSession is begun.  stored and
\* concurrent record what the call met: the stored session id (0: none) and
\* the calls that were creating a session for the same user; foundIdle is the
\* idle time of a stored session that had never been touched
CallGetOrCreateSession(u) ==
  /\ Len(calls) < MaxCalls
  /\ sessions' = Touch(sessions, u)
  /\ calls' = Append(calls,
       [op |-> "getOrCreateSession", userId |-> u,
        pc |-> IF sessions[u] = NoRow THEN "creating" ELSE "returned",
        ret |-> IF sessions[u] = NoRow THEN 0 ELSE sessions[u].sessionId,
        stored |-> IF sessions[u] = NoRow THEN 0 ELSE sessions[u].sessionId,
        found |-> 0, concurrent |-> Creating(u),
        foundIdle |-> IF sessions[u] = NoRow \/ sessions[u].touched THEN 0
                      ELSE sessions[u].idle,
        left |-> NoRow, released |-> FALSE])
  /\ UNCHANGED <<browsers, nextBrowserId, timers, throwsLeft>>
  /\ Unch_Session

\* createSession finishes for call k and getOrCreateSession returns the record
CreateSessionReturn(k) ==
  LET u == calls[k].userId
      b == nextBrowserId
  IN /\ calls[k].pc = "creating"
     /\ sessions' = SessionsAfterCreate(sessions, u, b)
     /\ browsers' = [browsers EXCEPT ![u] = @ \cup {b}]
     /\ nextBrowserId' = b + 1
     /\ timers' = ArmCleanup(timers, u)
     /\ calls' = [calls EXCEPT ![k].pc = "returned", ![k].ret = b]
     /\ UNCHANGED throwsLeft
     /\ Unch_Session

\* closeSession(u), called while a session is stored; browser.close() may
\* throw.  left and released record what the call left behind at its return:
\* the record under the user id, and whether the browser it found is closed
CallCloseSession(u) ==
  /\ Len(calls) < MaxCalls
  /\ sessions[u] # NoRow
  /\ \E closeThrows \in BOOLEAN :
       /\ closeThrows => throwsLeft > 0
       /\ throwsLeft' = IF closeThrows THEN throwsLeft - 1 ELSE throwsLeft
       /\ sessions' = SessionsAfterClose(sessions, u, closeThrows)
       /\ browsers' = BrowsersAfterClose(browsers, sessions, u, closeThrows)
       /\ calls' = Append(calls,
            [op |-> "closeSession", userId |-> u, pc |-> "returned", ret |-> 0,
             stored |-> sessions[u].sessionId, found |-> sessions[u].browser,
             concurrent |-> {}, foundIdle |-> 0,
             left |-> SessionsAfterClose(sessions, u, closeThrows)[u],
             released |-> sessions[u].browser
                            \notin BrowsersAfterClose(browsers, sessions, u, closeThrows)[u]])
  /\ UNCHANGED <<nextBrowserId, timers>>
  /\ Unch_Session

\* getSession(u) / updateSessionActivity(u) on a stored session: a touch
CallGetSession(u) ==
  /\ sessions[u] # NoRow
  /\ sessions[u].idle > 0
  /\ sessions' = Touch(sessions, u)
  /\ UNCHANGED <<browsers, nextBrowserId, timers, calls, throwsLeft>>
  /\ Unch_Session

\* ten minutes pass; a timeout that is due runs first
Tick ==
  /\ \A t \in timers : t.remaining > 0
  /\ timers # {} \/ \E u \in Users : sessions[u] # NoRow
  /\ \A u \in Users : sessions[u] # NoRow => sessions[u].idle < MaxIdle
  /\ sessions' = [u \in Users |->
                    IF sessions[u] = NoRow THEN NoRow
                    ELSE [sessions[u] EXCEPT !.idle = @ + 1]]
  /\ timers' = {[t EXCEPT !.remaining = @ - 1] : t \in timers}
  /\ UNCHANGED <<browsers, nextBrowserId, calls, throwsLeft>>
  /\ Unch_Session

\* the timeout armed by createSession or by an earlier check runs
\* cleanupSession(u): no session, nothing; an expired one is closed; otherwise
\* the check is armed again
CleanupSession(t) ==
  LET u == t.userId
  IN /\ t \in timers /\ t.remaining = 0
     /\ IF sessions[u] = NoRow
          THEN /\ timers' = timers \ {t}
               /\ UNCHANGED <<sessions, browsers, throwsLeft>>
        ELSE IF IsExpired(sessions[u])
          THEN /\ timers' = timers \ {t}
               /\ \E closeThrows \in BOOLEAN :
                    /\ closeThrows => throwsLeft > 0
                    /\ throwsLeft' = IF closeThrows THEN throwsLeft - 1 ELSE throwsLeft
                    /\ sessions' = SessionsAfterClose(sessions, u, closeThrows)
                    /\ browsers' = BrowsersAfterClose(browsers, sessions, u, closeThrows)
        ELSE /\ timers' = ArmCleanup(timers \ {t}, u)
             /\ UNCHANGED <<sessions, browsers, throwsLeft>>
     /\ UNCHANGED <<nextBrowserId, calls>>
     /\ Unch_Session

InitSession ==
  /\ settings = [u \in Users |-> NoRow]
  /\ usage = [u \in Users |-> NoRow]
  /\ pending = {}
  /\ nextPendingId = 1
  /\ trial = [u \in Users |-> TRUE]
  /\ userSockets = [u \in Users |-> 0]
  /\ sockets = {}
  /\ campaigns = [c \in Campaigns |-> CampaignRow(c, "active")]
  /\ throwsLeft = MaxThrows
  /\ InitCommon

NextSession ==
  \/ \E u \in Users : CallGetOrCreateSession(u)
  \/ \E k \in CallIds : CreateSessionReturn(k)
  \/ \E u \in Users : CallCloseSession(u)
  \/ \E u \in Users : CallGetSession(u)
  \/ Tick
  \/ \E t \in timers : CleanupSession(t)

SpecSession == InitSession /\ [][NextSession]_vars


(* ------------------------------ properties ----------------------------- *)
ConnectionLimit(u) == LoadLinkedInSettings(settings, u).max_connections_per_day
MessageLimit(u) == LoadLinkedInSettings(settings, u).max_message_per_day
UsedConnections(u) == GetDailyUsage(usage, u).connections
UsedMessages(u) == GetDailyUsage(usage, u).messages

LimitFor(u, t) ==
  LET s == LoadLinkedInSettings(settings, u)
  IN CASE t = "connections" -> s.max_connections_per_day
       [] t = "messages" -> s.max_message_per_day
       [] t = "visits" -> s.total_visits_per_day
       [] t = "inmails" -> s.max_inmails_per_day

UsedFor(u, t) ==
  LET g == GetDailyUsage(usage, u)
  IN CASE t = "connections" -> g.connections
       [] t = "messages" -> g.messages
       [] t = "visits" -> g.visits
       [] t = "inmails" -> g.inmails

\* a followRequest job whose current or last attempt evaluated the quota gate
Gated(j) == jobs[j].jobType = "followRequest" /\ jobs[j].gate # "none"

\* C1: for every user whose recorded usage was within the cap, the usage
\* recorded for the day plus the connection actions performed since never
\* exceeds max_connections_per_day.
C1_ConnectionsWithinDailyLimit ==
  \A u \in Users :
    UsedConnections(u) <= ConnectionLimit(u)
      => UsedConnections(u) + connectionsSent[u] <= ConnectionLimit(u)

\* C2: for every user whose recorded usage was within the cap, the messages
\* recorded for the day plus the follow-up messages sent since never exceed
\* max_message_per_day.
C2_MessagesWithinDailyLimit ==
  \A u \in Users :
    UsedMessages(u) <= MessageLimit(u)
      => UsedMessages(u) + messagesSent[u] <= MessageLimit(u)

\* C3: getRemainingQuotas returns, for each of the four resources, the cap
\* minus today's usage when that is positive and 0 otherwise; never a
\* negative number.
C3_RemainingClamped ==
  qcall.op = "getRemainingQuotas" =>
    LET u == qcall.userId
        r == [connections |-> qcall.ret.remainingConnections,
              messages |-> qcall.ret.remainingMessages,
              visits |-> qcall.ret.remainingVisits,
              inmails |-> qcall.ret.remainingInmails]
    IN \A t \in ActionTypes :
         /\ r[t] >= 0
         /\ LimitFor(u, t) >= UsedFor(u, t) => r[t] = LimitFor(u, t) - UsedFor(u, t)
         /\ LimitFor(u, t) < UsedFor(u, t) => r[t] = 0

\* C3 witness: the call was made for a user whose usage has over-run a cap
C3_Witness ==
  /\ qcall.op = "getRemainingQuotas"
  /\ UsedFor(qcall.userId, "connections") > LimitFor(qcall.userId, "connections") + 1
  /\ UsedFor(qcall.userId, "messages") < LimitFor(qcall.userId, "messages")
  /\ qcall.ret.remainingConnections = 0
  /\ qcall.ret.remainingMessages > 0

\* C4: getMaxActionsForRun returns the smaller of the requested amount and
\* the remaining allowance of the resource, and 0 when nothing remains.
C4_MaxActionsIsMin ==
  qcall.op = "getMaxActionsForRun" =>
    LET u == qcall.userId
        t == qcall.actionType
        remaining == IF LimitFor(u, t) > UsedFor(u, t)
                       THEN LimitFor(u, t) - UsedFor(u, t) ELSE 0
    IN /\ qcall.ret <= qcall.requestedCount
       /\ qcall.ret <= remaining
       /\ qcall.ret = qcall.requestedCount \/ qcall.ret = remaining
       /\ remaining = 0 => qcall.ret = 0

\* C4 witness: a positive amount was requested of an exhausted resource
C4_Witness ==
  /\ qcall.op = "getMaxActionsForRun"
  /\ qcall.requestedCount > 0
  /\ UsedFor(qcall.userId, qcall.actionType) >= LimitFor(qcall.userId, qcall.actionType)
  /\ UsedFor(qcall.userId, qcall.actionType) > 0
  /\ qcall.ret = 0

\* the pending row a run recorded for its own deferral
OwnPendingRow(j) ==
  {p \in pending : /\ p.id = jobs[j].deferredId
                   /\ p.user_id = jobs[j].userId
                   /\ p.campaign_id = jobs[j].campaignId
                   /\ p.job_type = "followRequest"
                   /\ p.action_type = "connections"}

C6_ScenarioUsageAndRemainder ==
  \A j \in JobIds :
    LET u == jobs[j].userId
    IN (/\ Gated(j) /\ jobs[j].state = "completed"
        /\ ConnectionLimit(u) = 30 /\ jobs[j].gateRemaining = 2
        /\ jobs[j].requested = 10 /\ jobs[j].did = 2)
         => /\ jobs[j].allowance = 2
            /\ UsedConnections(u) = 30
            /\ \E p \in pending : /\ p.user_id = u
                                  /\ p.campaign_id = jobs[j].campaignId
                                  /\ p.action_type = "connections"
                                  /\ p.requested_count = 8

\* C7: whenever a followResponse run found the remaining message quota at 0
\* for a campaign that has follow-ups pending, a Pending Job for the user's
\* messages is recorded; and a followRequest run that found the connection
\* quota exhausted has its Pending Job recorded.
C7_ExhaustedWorkIsDeferred ==
  \A j \in JobIds :
    /\ \A c \in Campaigns :
         (jobs[j].jobType = "followResponse" /\ jobs[j].sub[c].blocked /\ followUps[c] # {})
           => \E p \in pending : /\ p.user_id = campaigns[c].user_id
                                 /\ p.action_type = "messages"
    /\ (Gated(j) /\ jobs[j].gate = "deferred") => OwnPendingRow(j) # {}

\* C8: the pending_jobs table holds at most one row per
\* (user, campaign, job kind, resource, requested amount).
C8_CreatePendingJobIdempotent ==
  \A p \in pending, q \in pending :
    (/\ p.user_id = q.user_id /\ p.campaign_id = q.campaign_id
     /\ p.job_type = q.job_type /\ p.action_type = q.action_type
     /\ p.requested_count = q.requested_count)
      => p = q

\* the real jobs the reconciliation enqueued for a pending row
JobsForPending(id) ==
  {j \in JobIds : jobs[j].jobType = "processPendingJobs" /\ jobs[j].pendingJobId = id}

\* C9: a Pending Job that was re-enqueued as a real Job is gone from the
\* table, and no Pending Job is re-enqueued more than once.
C9_ReconciliationConsumes ==
  /\ \A p \in pending : JobsForPending(p.id) = {}
  /\ \A id \in 1..nextPendingId : Cardinality(JobsForPending(id)) <= 1

\* C10: a job is only ever taken by the worker of its own kind, and no job is
\* completed without the processor of its kind having been invoked on it.
C10_ProcessedByOwnKind ==
  \A j \in JobIds :
    /\ jobs[j].worker # None => WorkerKind[jobs[j].worker] = jobs[j].jobType
    /\ jobs[j].state = "completed" => jobs[j].invoked

\* the four lists getQueueStats and the getXJobs methods read
QueueLists == <<GetWaiting, GetActive, GetCompleted, GetFailed>>

\* C11: every job of the queue is in exactly one of the four lists waiting,
\* active, completed, failed: never in two and never in none, also while it
\* waits for its retry backoff.
C11_ExactlyOneBucket ==
  \A j \in JobIds : Cardinality({b \in 1..4 : j \in QueueLists[b]}) = 1

\* the rows job j's runs wrote under its campaign id
JobLog(j) == jobs[j].activity[jobs[j].campaignId]

\* the positions of the failure rows, and of the success rows, in JobLog(j)
FailureRows(j) == {i \in 1..Len(JobLog(j)) : JobLog(j)[i].log_level = "error"}
SuccessRows(j) ==
  {i \in 1..Len(JobLog(j)) : JobLog(j)[i] = CompletedEntry([attemptsMade |-> Attempts - 1])}

\* C12: a job whose action threw on attempts 1 and 2 and succeeded on attempt
\* 3 is not failed, is completed once its handler has returned, and has
\* exactly two failure rows in the activity log, both before the success row.
C12_TwoFailuresThenSuccess ==
  \A j \in JobIds :
    (/\ jobs[j].stacktrace = <<"ActionFailed", "ActionFailed">>
     /\ SuccessRows(j) # {})
      => /\ jobs[j].state \in {"active", "completed"}
         /\ Cardinality(FailureRows(j)) = 2
         /\ \A i \in FailureRows(j), k \in SuccessRows(j) : i < k

\* the jobs a worker's processor is running on
Processing(w) ==
  {j \in JobIds : /\ jobs[j].state = "active" /\ jobs[j].worker = w
                  /\ jobs[j].jobType = WorkerKind[w] /\ jobs[j].pc # "return"}

\* C13: each worker has at most 5 jobs in the active state, so at most 5
\* invocations of the processor of one kind run at the same time.
C13_BoundedConcurrency ==
  \A w \in Workers :
    /\ ActiveCount(w) <= Concurrency
    /\ Cardinality(Processing(w)) <= Concurrency

\* C13 witness: a worker holds 5 active jobs, all inside its processor, while
\* a further job waits in the queue
C13_Witness ==
  \E w \in Workers :
    /\ ActiveCount(w) = Concurrency
    /\ Cardinality(Processing(w)) = Concurrency
    /\ GetWaiting # {}

\* the browsers launched for user u and not closed
LiveSessions(u) == browsers[u]

\* C14: at every moment at most one session of a user is live (a launched
\* browser that has not been closed), also when two runWithLogin or
\* getOrCreateSession calls for the user interleave and when an unhealthy
\* session is replaced.
C14_OneLiveSessionPerUser ==
  \A u \in Users : Cardinality(LiveSessions(u)) <= 1

\* the getOrCreateSession calls that have returned
ReturnedRequests ==
  {k \in CallIds : calls[k].op = "getOrCreateSession" /\ calls[k].pc = "returned"}

\* C15: a second session request for a user, arriving while the first is
\* still launching or after the first has stored its session, returns the
\* session id the first returned.
C15_SecondRequestReusesSession ==
  \A k1 \in ReturnedRequests, k2 \in ReturnedRequests :
    (/\ k1 < k2 /\ calls[k1].userId = calls[k2].userId
     /\ k1 \in calls[k2].concurrent \/ calls[k2].stored = calls[k1].ret)
      => calls[k2].ret = calls[k1].ret

\* the timeouts of user u that have elapsed and whose callback has yet to run
DueCleanups(u) == {t \in timers : t.userId = u /\ t.remaining = 0}

\* C16: a session that has stayed idle for the 20-minute timeout without any
\* touch is closed and its record removed as soon as the timeout has elapsed,
\* and no later session request finds it.
C16_IdleSessionClosed ==
  /\ \A u \in Users :
       (sessions[u] # NoRow /\ ~sessions[u].touched /\ IsExpired(sessions[u]))
         => DueCleanups(u) # {}
  /\ \A k \in CallIds :
       calls[k].op = "getOrCreateSession" => calls[k].foundIdle <= SessionTimeout + 1

\* C17: when closeSession(userId) returns, no session record is stored for
\* the user and the browser of the session it found has been closed, also
\* when closing the browser throws.
C17_CloseRemovesAndReleases ==
  \A k \in CallIds :
    calls[k].op = "closeSession" => calls[k].left = NoRow /\ calls[k].released

\* the rows the runWithLogin invocations of job j wrote for campaign c
IsAutomationRow(e) == e.job_type = "automation"
AutomationRows(j, c) == SelectSeq(jobs[j].activity[c], IsAutomationRow)

\* the row that ends the bracket a 'started' row opened
EndsBracket(e, started) ==
  LET job == [attemptsMade |-> started.attempt - 1]
  IN started = StartedEntry(job) /\ e \in {CompletedEntry(job), FailedEntry(job)}

\* C18: the rows of the runWithLogin invocations come in brackets: a 'started'
\* row, then exactly one 'completed' or 'failed' row of the same invocation;
\* a 'started' row without its end belongs to an invocation still running.
C18_StartedThenCompletedOrFailed ==
  \A j \in JobIds, c \in Campaigns :
    LET rows == AutomationRows(j, c)
    IN /\ \A i \in 1..Len(rows) :
            IF i % 2 = 1 THEN rows[i] = StartedEntry([attemptsMade |-> rows[i].attempt - 1])
            ELSE EndsBracket(rows[i], rows[i - 1])
       /\ Len(rows) % 2 = 1 => jobs[j].state = "active" /\ jobs[j].sub[c].pc = "action"

\* the attempt the locals of job j belong to, and the error that attempt
\* handed to the worker (None while the attempt runs or after it returned)
LocalsAttempt(j) ==
  IF jobs[j].state \in {"active", "completed"} THEN jobs[j].attemptsMade + 1
  ELSE jobs[j].attemptsMade
ThrownToWorker(j) ==
  IF jobs[j].state = "active"
    THEN (IF jobs[j].pc = "throw" THEN jobs[j].err ELSE None)
  ELSE IF jobs[j].state = "completed" \/ jobs[j].stacktrace = <<>> THEN None
  ELSE jobs[j].stacktrace[Len(jobs[j].stacktrace)]

\* C19: whenever an error reached the catch block of a runWithLogin
\* invocation, the invocation wrote its 'failed' row and threw that same
\* error to its caller, the attempt threw it to the worker, and the
\* invocation did not return normally.
C19_LogsAndRethrows ==
  \A j \in JobIds, c \in Campaigns :
    jobs[j].sub[c].threw # None
      => /\ jobs[j].sub[c].pc = "rethrown"
         /\ jobs[j].pc # "return" /\ jobs[j].state # "completed"
         /\ ThrownToWorker(j) = jobs[j].sub[c].threw
         /\ \E i \in 1..Len(jobs[j].activity[c]) :
              jobs[j].activity[c][i] = FailedEntry([attemptsMade |-> LocalsAttempt(j) - 1])

\* C19 witness: the action threw inside runWithLogin and the job waits for
\* its retry, and on another attempt the session creation threw
C19_Witness ==
  \E j \in JobIds, c \in Campaigns :
    /\ jobs[j].sub[c].threw = "ActionFailed"
    /\ jobs[j].state = "delayed"
    /\ "SessionError" \in {jobs[j].stacktrace[i] : i \in 1..Len(jobs[j].stacktrace)}

\* the place in the queue of the job the last timer body added for its item
\* i: after the jobs of the items before i whose add did not throw
PlaceOfItem(i) ==
  lastTick.first + Cardinality({k \in 1..(i - 1) : k \notin lastTick.failing})

\* C20: in the last timer body run, every item whose own add did not throw
\* had its job enqueued, whatever happened to the items before it, and the
\* body returned without throwing.
C20_TimerBodyIsolatesItems ==
  lastTick.timer # None =>
    /\ ~lastTick.threw
    /\ \A i \in 1..Len(lastTick.items) :
         i \notin lastTick.failing =>
           /\ PlaceOfItem(i) <= Len(jobs)
           /\ jobs[PlaceOfItem(i)].jobType = lastTick.items[i].jobType
           /\ jobs[PlaceOfItem(i)].userId = lastTick.items[i].userId
           /\ jobs[PlaceOfItem(i)].campaignId = lastTick.items[i].campaignId
           /\ jobs[PlaceOfItem(i)].pendingJobId = lastTick.items[i].pendingJobId

\* C20 witness: the add for the first item of a tick threw and the job for a
\* later item of the same tick is in the queue
C20_Witness ==
  /\ lastTick.timer # None
  /\ \E i \in lastTick.failing, k \in 1..Len(lastTick.items) :
       /\ i < k /\ k \notin lastTick.failing
       /\ PlaceOfItem(k) <= Len(jobs)
       /\ jobs[PlaceOfItem(k)].campaignId = lastTick.items[k].campaignId

\* the processor of job j's kind ran in the attempt that was made last
LastAttemptProcessed(j) ==
  jobs[j].worker # None /\ WorkerKind[jobs[j].worker] = jobs[j].jobType

\* C21: a job is retried while attempts remain and failed, with the reason
\* recorded, once its 3 attempts are used up: every attempt that threw is
\* counted, at most 3 are made, a job waits for a retry only while attempts
\* remain, a failed job has made all 3 and carries its failure reason, and a
\* job is completed only by an attempt in which its processor ran and returned.
C21_RetriedThenFailed ==
  \A j \in JobIds :
    /\ Len(jobs[j].stacktrace) = jobs[j].attemptsMade
    /\ jobs[j].attemptsMade <= Attempts
    /\ jobs[j].state = "delayed" => jobs[j].attemptsMade < Attempts
    /\ jobs[j].state = "failed" => jobs[j].attemptsMade = Attempts /\ jobs[j].err # None
    /\ (jobs[j].state = "completed" /\ jobs[j].attemptsMade > 0) => LastAttemptProcessed(j)


(* ------------- the quota manager's operations, called in any order ------------- *)
\* pending rows kept in the table of this specification
MaxPendingRows == 2
\* days a pending row is followed
MaxAgeDays == 4

Unch_Manager ==
  UNCHANGED <<trial, userSockets, sockets, campaigns, connCount, connections, followUps, jobs, connectionsSent,
              messagesSent, throwsLeft, sessionVars, lastTick>>

ManagerGetRemainingQuotas(u) ==
  /\ qcall' = [op |-> "getRemainingQuotas", userId |-> u,
               ret |-> GetRemainingQuotas(settings, usage, u)]
  /\ settings' = MaterializeSettings(settings, u)
  /\ UNCHANGED <<usage, pending, nextPendingId>>
  /\ Unch_Manager

ManagerHasRemainingQuota(u, actionType, requestedCount) ==
  /\ qcall' = [op |-> "hasRemainingQuota", userId |-> u,
               ret |-> HasRemainingQuota(settings, usage, u, actionType, requestedCount)]
  /\ settings' = MaterializeSettings(settings, u)
  /\ UNCHANGED <<usage, pending, nextPendingId>>
  /\ Unch_Manager

\* a getMaxActionsForRun that books what it grants into daily_usage
ManagerGetMaxActionsForRunReserving(u, actionType, requestedCount) ==
  /\ qcall' = [op |-> "getMaxActionsForRun", userId |-> u,
               ret |-> GetMaxActionsForRun(settings, usage, u, actionType, requestedCount)]
  /\ settings' = MaterializeSettings(settings, u)
  /\ usage' = [usage EXCEPT ![u] =
                 [GetDailyUsage(usage, u) EXCEPT ![actionType] =
                    @ + GetMaxActionsForRun(settings, usage, u, actionType, requestedCount)]]
  /\ UNCHANGED <<pending, nextPendingId>>
  /\ Unch_Manager

ManagerGetMaxActionsForRun(u, actionType, requestedCount) ==
  /\ qcall' = [op |-> "getMaxActionsForRun", userId |-> u,
               ret |-> GetMaxActionsForRun(settings, usage, u, actionType, requestedCount)]
  /\ settings' = MaterializeSettings(settings, u)
  /\ UNCHANGED <<usage, pending, nextPendingId>>
  /\ Unch_Manager

\* the four lines logged: used/limit (remaining) per resource
ManagerLogUsageAndLimits(u) ==
  /\ qcall' = [op |-> "logUsageAndLimits", userId |-> u,
               ret |-> <<GetDailyUsage(usage, u), LoadLinkedInSettings(settings, u),
                         GetRemainingQuotas(settings, usage, u)>>]
  /\ settings' = MaterializeSettings(settings, u)
  /\ UNCHANGED <<usage, pending, nextPendingId>>
  /\ Unch_Manager

ManagerCreatePendingJob(u, c, jobType, actionType, requestedCount) ==
  /\ nextPendingId <= MaxPendingRows
  /\ pending' = CreatePendingJob(pending, nextPendingId, u, c, jobType, actionType,
                                 requestedCount)
  /\ nextPendingId' = nextPendingId + 1
  /\ qcall' = [op |-> "createPendingJob", userId |-> u, ret |-> None]
  /\ UNCHANGED <<settings, usage>>
  /\ Unch_Manager

ManagerGetProcessablePendingJobs ==
  /\ qcall' = [op |-> "getProcessablePendingJobs", userId |-> None,
               ret |-> GetProcessablePendingJobs(pending)]
  /\ UNCHANGED <<settings, usage, pending, nextPendingId>>
  /\ Unch_Manager

ManagerCleanupOldPendingJobs ==
  /\ pending' = CleanupOldPendingJobs(pending)
  /\ qcall' = [op |-> "cleanupOldPendingJobs", userId |-> None, ret |-> None]
  /\ UNCHANGED <<settings, usage, nextPendingId>>
  /\ Unch_Manager

\* a day goes by: every pending row is a day older
DayPasses ==
  /\ pending # {}
  /\ \A p \in pending : p.age < MaxAgeDays
  /\ pending' = {[p EXCEPT !.age = @ + 1] : p \in pending}
  /\ qcall' = [op |-> None]
  /\ UNCHANGED <<settings, usage, nextPendingId>>
  /\ Unch_Manager

InitManager ==
  /\ \E q \in QuotaScenarios :
        /\ settings = [u \in Users |-> IF u = "u1" THEN q[1] ELSE NoRow]
        /\ usage = [u \in Users |-> IF u = "u1" THEN q[2] ELSE NoRow]
        /\ pending = q[3]
        /\ nextPendingId = Cardinality(q[3]) + 1
  /\ trial = [u \in Users |-> TRUE]
  /\ userSockets = [u \in Users |-> 0]
  /\ sockets = {}
  /\ campaigns = [c \in Campaigns |-> CampaignRow(c, "active")]
  /\ throwsLeft = 0
  /\ InitCommon

NextManager ==
  \/ \E u \in Users : ManagerGetRemainingQuotas(u)
  \/ \E u \in Users, t \in {"connections", "messages"}, r \in {1, MaxRequested} :
        ManagerHasRemainingQuota(u, t, r)
  \/ \E u \in Users, t \in {"connections", "messages"}, r \in {1, MaxRequested} :
        ManagerGetMaxActionsForRun(u, t, r)
  \/ \E u \in Users : ManagerLogUsageAndLimits(u)
  \/ \E t \in {"connections", "messages"} :
        ManagerCreatePendingJob("u1", "c1", "followRequest", t, MaxRequested)
  \/ ManagerGetProcessablePendingJobs
  \/ ManagerCleanupOldPendingJobs
  \/ DayPasses

SpecManager == InitManager /\ [][NextManager]_vars

\* an operation of the quota manager has just returned
ManagerReturned == qcall.op # None

\* C22: no operation of the quota manager changes a daily-usage counter: across
\* every step that is one of its seven operations the daily_usage table is the
\* same before and after, and so are the counts of actions performed; what the
\* step writes is a pending_jobs row or the default settings row of a first read.
C22_ManagerNeverWritesUsage ==
  [][ManagerReturned' =>
       /\ usage' = usage
       /\ connectionsSent' = connectionsSent /\ messagesSent' = messagesSent
       /\ \A u \in Users :
            settings'[u] # settings[u] =>
              settings[u] = NoRow /\ settings'[u] = DefaultSettings]_vars

\* the manager has read the tables of a user at the daily cap (the default
\* settings row was materialised), a pending row existed and the purge has just
\* emptied the table: the usage row is the one of the start
C22_Witness ==
  /\ qcall.op = "cleanupOldPendingJobs"
  /\ pending = {}
  /\ nextPendingId > 1
  /\ usage["u1"] = ExhaustedUsage
  /\ settings["u1"] = DefaultSettings


\* the day's count of actionType for user u in the daily_usage table usg
UsageCounter(usg, u, actionType) == GetDailyUsage(usg, u)[actionType]

\* C23: every outreach action that succeeds raises the user's daily-usage
\* counter of its resource by exactly one (a connection request raises
\* connections, a follow-up message raises messages), a step without a
\* successful action raises no counter, and no counter ever decreases.
C23_UsageCountsSuccesses ==
  [][\A u \in Users :
       /\ UsageCounter(usage', u, "connections") - UsageCounter(usage, u, "connections")
            = connectionsSent'[u] - connectionsSent[u]
       /\ UsageCounter(usage', u, "messages") - UsageCounter(usage, u, "messages")
            = messagesSent'[u] - messagesSent[u]
       /\ \A t \in ActionTypes : UsageCounter(usage', u, t) >= UsageCounter(usage, u, t)]_vars


\* the timeout callback has just closed the session of user u
ClosedByCleanup(u) ==
  /\ sessions[u] # NoRow /\ sessions'[u] = NoRow
  /\ \E t \in timers : t.userId = u /\ t.remaining = 0 /\ timers' = timers \ {t}

\* C24: expiry is measured from the last touch: once a full timeout window has
\* passed since a session was last touched its cleanup is due at once (it is
\* closed one window after the touch, not at the next multiple of the window
\* after creation), and the timeout callback closes a session only when more
\* than a window has passed since its last activity.
C24_ExpiryFromLastTouch ==
  /\ [](\A u \in Users :
          (sessions[u] # NoRow /\ sessions[u].touched
             /\ sessions[u].idle >= SessionTimeout)
            => DueCleanups(u) # {})
  /\ [][\A u \in Users : ClosedByCleanup(u) => IsExpired(sessions[u])]_vars


(* ------------- sessions whose page closes under the runner ------------- *)
\* jobs submitted in this specification
MaxHealthJobs == 2

\* the page of the stored session of user u closes (a crash, a closed tab):
\* page.isClosed() is true from now on
PageCloses(u) ==
  /\ sessions[u] # NoRow /\ ~sessions[u].pageClosed
  /\ sessions' = [sessions EXCEPT ![u].pageClosed = TRUE]
  /\ UNCHANGED <<settings, usage, trial, userSockets, sockets, campaigns, connCount, connections, followUps, pending,
                 nextPendingId, jobs, connectionsSent, messagesSent, throwsLeft, qcall,
                 browsers, nextBrowserId, timers, calls, lastTick>>

NextHealth ==
  \/ SubmitJob(RetryRequest, MaxHealthJobs)
  \/ \E w \in Workers, j \in JobIds : Take(w, j)
  \/ \E j \in JobIds : MoveToCompleted(j)
  \/ \E j \in JobIds : MoveToFailed(j)
  \/ \E j \in JobIds : Promote(j)
  \/ \E j \in JobIds : FollowRequestProcess(j)
  \/ \E j \in JobIds, c \in Campaigns : CreateSessionFinish(j, c)
  \/ \E j \in JobIds : SendFollowRequestsStart(j)
  \/ \E j \in JobIds : EnterPage(j)
  \/ \E j \in JobIds : ProcessPerson(j)
  \/ \E j \in JobIds : NextPage(j)
  \/ \E j \in JobIds : SendFollowRequestsReturn(j)
  \/ \E j \in JobIds : ActionThrows(j)
  \/ \E u \in Users : PageCloses(u)

InitHealth ==
  /\ settings = [u \in Users |-> SmallSettings]
  /\ usage = [u \in Users |-> NoRow]
  /\ pending = {}
  /\ nextPendingId = 1
  /\ trial = [u \in Users |-> TRUE]
  /\ userSockets = [u \in Users |-> 0]
  /\ sockets = {}
  /\ campaigns = [c \in Campaigns |-> CampaignRow(c, "active")]
  /\ throwsLeft = MaxThrows
  /\ InitCommon

SpecHealth == InitHealth /\ [][NextHealth]_vars

\* runWithLogin of job j for campaign c calls the action in this step
ActionInvoked(j, c) ==
  /\ j \in DOMAIN jobs'
  /\ jobs[j].sub[c].pc # "action" /\ jobs'[j].sub[c].pc = "action"

RunningActions ==
  {jc \in JobIds \X Campaigns :
     jobs[jc[1]].state = "active" /\ jobs[jc[1]].sub[jc[2]].pc = "action"}

\* C26: a user's session is lent to one runWithLogin invocation at a time: no
\* two running actions, of two jobs or of two campaigns of one followResponse
\* job, hold the same session.
C26_SessionLentToOne ==
  \A a \in RunningActions, b \in RunningActions :
    (a # b /\ campaigns[a[2]].user_id = campaigns[b[2]].user_id)
      => jobs[a[1]].sub[a[2]].session # jobs[b[1]].sub[b[2]].session


(* ------------- batches against the clock ------------------------------- *)
\* minutes a batch is followed
MaxElapsed == 4

\* the requests of this specification: a followRequest job for the search
\* campaign c1 or the reactions campaign c2, or a followResponse job of u1
TimeBoxRequests ==
  { [jobType |-> "followRequest", userId |-> "u1", campaignId |-> "c1", importLimit |-> 0],
    [jobType |-> "followRequest", userId |-> "u1", campaignId |-> "c2", importLimit |-> 0],
    [jobType |-> "followResponse", userId |-> "u1", campaignId |-> System, importLimit |-> 0] }

\* the batches of job j that are under way: the campaign of a followRequest
\* job inside sendFollowRequests, the campaigns of a followResponse job inside
\* sendFollowUpMessages
BatchesUnderWay(j) ==
  {c \in Campaigns :
     /\ jobs[j].state = "active" /\ jobs[j].sub[c].pc = "action"
     /\ \/ jobs[j].jobType = "followRequest" /\ jobs[j].pc \in {"outer", "inner"}
        \/ jobs[j].jobType = "followResponse" /\ jobs[j].pc = "campaigns"}

\* a minute goes by for the batches of job j
MinutePasses(j) ==
  /\ BatchesUnderWay(j) # {}
  /\ \A c \in BatchesUnderWay(j) : jobs[j].sub[c].elapsed < MaxElapsed
  /\ jobs' = [jobs EXCEPT ![j].sub =
                [c \in Campaigns |->
                   IF c \in BatchesUnderWay(j) THEN [@[c] EXCEPT !.elapsed = @ + 1]
                   ELSE @[c]]]
  /\ UNCHANGED <<settings, usage, trial, userSockets, sockets, campaigns, connCount, connections, followUps, pending,
                 nextPendingId, connectionsSent, messagesSent, throwsLeft, qcall,
                 sessionVars, lastTick>>

InitTimeBox ==
  /\ settings = [u \in Users |-> SmallSettings]
  /\ usage = [u \in Users |-> NoRow]
  /\ pending = {}
  /\ nextPendingId = 1
  /\ trial = [u \in Users |-> TRUE]
  /\ userSockets = [u \in Users |-> 0]
  /\ sockets = {}
  /\ campaigns = [c \in Campaigns |-> CampaignRow(c, "active")]
  /\ throwsLeft = 0
  /\ InitCommon

NextTimeBox ==
  \/ \E r \in TimeBoxRequests : SubmitJob(r, 1)
  \/ \E w \in Workers, j \in JobIds : Take(w, j)
  \/ \E j \in JobIds : MoveToCompleted(j)
  \/ \E j \in JobIds : FollowRequestProcess(j)
  \/ \E j \in JobIds, c \in Campaigns : CreateSessionFinish(j, c)
  \/ \E j \in JobIds : SendFollowRequestsStart(j)
  \/ \E j \in JobIds : EnterPage(j)
  \/ \E j \in JobIds : ProcessPerson(j)
  \/ \E j \in JobIds : NextPage(j)
  \/ \E j \in JobIds : SendFollowRequestsReturn(j)
  \/ \E j \in JobIds : FollowResponseProcess(j)
  \/ \E j \in JobIds, c \in Campaigns : ProcessCampaignFollowResponse(j, c)
  \/ \E j \in JobIds, c \in Campaigns : SendFollowUpMessage(j, c)
  \/ \E j \in JobIds, c \in Campaigns : CampaignFollowResponseReturn(j, c)
  \/ \E j \in JobIds : FollowResponseReturn(j)
  \/ \E j \in JobIds : MinutePasses(j)

SpecTimeBox == InitTimeBox /\ [][NextTimeBox]_vars

\* job j starts an outreach action for campaign c in this step: the next person
\* of a followRequest batch or the next connection of a followResponse batch
OutreachInitiated(j, c) ==
  /\ j \in DOMAIN jobs'
  /\ c \in BatchesUnderWay(j)
  /\ \/ jobs'[j].did > jobs[j].did
     \/ jobs'[j].sub[c].todo # jobs[j].sub[c].todo

\* C27: every batch is time-boxed: no outreach action is started once more
\* than the maximum duration (3 minutes) has gone by since the batch began,
\* in followRequest batches and in followResponse message batches, and a job
\* whose batch ran out of time does not fail.
C27_TimeBoxed ==
  /\ [][\A j \in JobIds, c \in Campaigns :
          OutreachInitiated(j, c) => jobs[j].sub[c].elapsed <= MaxDurationMs]_vars
  /\ [](\A j \in JobIds : jobs[j].state # "failed" /\ jobs[j].err = None)


\* job j, a followRequest job, leaves the first part of process in this step
\* without a failed read, for a user past the trial or a campaign that is not
\* active
SkippedRun(j) ==
  LET u == jobs[j].userId
      c == jobs[j].campaignId
  IN /\ jobs[j].jobType = "followRequest"
     /\ jobs[j].state = "active" /\ jobs[j].pc = "process"
     /\ jobs'[j].pc # "process"
     /\ throwsLeft' = throwsLeft
     /\ ~trial[u] \/ (c \in Campaigns /\ campaigns[c].status # "active")

ProcessPersonFails(j) ==
  LET job == jobs[j]
      c == job.campaignId
  IN /\ job.state = "active" /\ job.pc = "inner"
     /\ job.followed < job.allowance
     /\ ~TimeIsUp(campaigns[c].campaign_type, job.sub[c].elapsed)
     /\ throwsLeft > 0 /\ throwsLeft' = throwsLeft - 1
     /\ jobs' = [jobs EXCEPT ![j].activity = LogActivity(@, c,
                                Entry("followRequest", "error",
                                      "Error processing profile of the contact",
                                      Attempt(job)))]
     /\ UNCHANGED <<settings, usage, trial, userSockets, sockets, campaigns, connCount, connections, followUps, pending,
                    nextPendingId, connectionsSent, messagesSent, qcall, sessionVars,
                    lastTick>>

NextUiFailure ==
  \/ \E r \in TimeBoxRequests : SubmitJob(r, 1)
  \/ \E w \in Workers, j \in JobIds : Take(w, j)
  \/ \E j \in JobIds : MoveToCompleted(j)
  \/ \E j \in JobIds : MoveToFailed(j)
  \/ \E j \in JobIds : Promote(j)
  \/ \E j \in JobIds : FollowRequestProcess(j)
  \/ \E j \in JobIds, c \in Campaigns : CreateSessionFinish(j, c)
  \/ \E j \in JobIds : SendFollowRequestsStart(j)
  \/ \E j \in JobIds : EnterPage(j)
  \/ \E j \in JobIds : ProcessPerson(j)
  \/ \E j \in JobIds : ProcessPersonFails(j)
  \/ \E j \in JobIds : NextPage(j)
  \/ \E j \in JobIds : SendFollowRequestsReturn(j)
  \/ \E j \in JobIds : ActionThrows(j)
  \/ \E j \in JobIds : FollowResponseProcess(j)
  \/ \E j \in JobIds, c \in Campaigns : ProcessCampaignFollowResponse(j, c)
  \/ \E j \in JobIds, c \in Campaigns : SendFollowUpMessage(j, c)
  \/ \E j \in JobIds, c \in Campaigns : CampaignFollowResponseReturn(j, c)
  \/ \E j \in JobIds : FollowResponseReturn(j)

SpecUiFailure == InitHealth /\ [][NextUiFailure]_vars

\* the rows written for a UI step that failed
UiFailureMessages ==
  {"Error processing profile of the contact", "Failed to send follow-up message"}

\* a UI step of job j's action for campaign c fails in this step
UiStepFailed(j, c) ==
  /\ j \in DOMAIN jobs'
  /\ Len(jobs'[j].activity[c]) = Len(jobs[j].activity[c]) + 1
  /\ LET e == jobs'[j].activity[c][Len(jobs'[j].activity[c])]
     IN e.log_level = "error" /\ e.message \in UiFailureMessages

\* C29: an ActionFailed error of a UI step (sending a connection request or a
\* follow-up message) is not swallowed: when the step fails the error leaves
\* the action, runWithLogin and the processor, so the attempt ends thrown to
\* the worker with ActionFailed as its failure reason and is not completed.
C29_UiFailurePropagates ==
  [][\A j \in JobIds, c \in Campaigns :
       UiStepFailed(j, c) => jobs'[j].pc = "throw" /\ jobs'[j].err = "ActionFailed"]_vars


(* ------------- reads that fail under the processor --------------------- *)
\* the tables process reads before the gate: the user's profile, limits and
\* daily usage
ReadTables == {"profiles", "linkedin_settings", "daily_usage"}

\* process runs while the reads of some tables, or of none, fail
FollowRequestProcessMayFail(j) ==
  \E failing \in SUBSET ReadTables : FollowRequestProcessReading(j, failing)

InitReadFailure ==
  /\ \E q \in QuotaScenarios :
        /\ settings = [u \in Users |-> IF u = "u1" THEN q[1] ELSE NoRow]
        /\ usage = [u \in Users |-> IF u = "u1" THEN q[2] ELSE NoRow]
        /\ pending = q[3]
        /\ nextPendingId = Cardinality(q[3]) + 1
  /\ trial = [u \in Users |-> TRUE]
  /\ userSockets = [u \in Users |-> 0]
  /\ sockets = {}
  /\ campaigns = [c \in Campaigns |-> CampaignRow(c, "active")]
  /\ throwsLeft = MaxThrows
  /\ InitCommon

NextReadFailure ==
  \/ SubmitJob(RetryRequest, 1)
  \/ \E w \in Workers, j \in JobIds : Take(w, j)
  \/ \E j \in JobIds : MoveToCompleted(j)
  \/ \E j \in JobIds : MoveToFailed(j)
  \/ \E j \in JobIds : Promote(j)
  \/ \E j \in JobIds : FollowRequestProcessMayFail(j)
  \/ \E j \in JobIds, c \in Campaigns : CreateSessionFinish(j, c)
  \/ \E j \in JobIds : SendFollowRequestsStart(j)
  \/ \E j \in JobIds : EnterPage(j)
  \/ \E j \in JobIds : ProcessPerson(j)
  \/ \E j \in JobIds : NextPage(j)
  \/ \E j \in JobIds : SendFollowRequestsReturn(j)
  \/ \E j \in JobIds : ActionThrows(j)

SpecReadFailure == InitReadFailure /\ [][NextReadFailure]_vars

\* C30: a failed read of the user's profile, limits or daily usage fails the
\* attempt: an attempt in which such a read failed is past its reads only as
\* an error thrown to the worker, it grants no allowance and makes no action,
\* and its job is not completed by it.
C30_ReadFailureIsRetried ==
  \A j \in JobIds :
    jobs[j].failedReads # {} =>
      /\ jobs[j].state # "completed"
      /\ jobs[j].state = "active" => jobs[j].pc = "throw"
      /\ jobs[j].gate = "none" /\ jobs[j].did = 0


(* ------------- pending rows under reconciliation and purge ------------- *)
\* retries a pending row is followed through
MaxRetryCount == 4

\* incrementPendingJobRetry(jobId): the update sets retry_count to the result
\* of the database function increment_retry_count, which is not part of the
\* repository: the count goes up by one, or the update fails, the error is
\* logged and the row stays as it is
ManagerIncrementPendingJobRetry(id) ==
  /\ \E p \in pending : p.id = id /\ p.retry_count < MaxRetryCount
  /\ \E updated \in BOOLEAN :
       pending' = IF updated
                    THEN {IF p.id = id THEN [p EXCEPT !.retry_count = @ + 1] ELSE p :
                            p \in pending}
                    ELSE pending
  /\ qcall' = [op |-> "incrementPendingJobRetry", userId |-> None, ret |-> None]
  /\ UNCHANGED <<settings, usage, nextPendingId>>
  /\ Unch_Manager

\* @Cron daily at 02:00: the scheduler calls the service's purge
SchedulerCleanupOldPendingJobs == ManagerCleanupOldPendingJobs

NextPending ==
  \/ \E t \in {"connections", "messages"} :
        ManagerCreatePendingJob("u1", "c1", "followRequest", t, MaxRequested)
  \/ \E id \in 1..MaxPendingRows : ManagerIncrementPendingJobRetry(id)
  \/ ProcessPendingJobs
  \/ SchedulerCleanupOldPendingJobs
  \/ DayPasses

SpecPending == InitManager /\ [][NextPending]_vars

\* the hourly reconciliation runs in this step
Reconciled == lastTick' # lastTick /\ lastTick'.timer = "pending_jobs"

\* C31: the hourly reconciliation re-enqueues only pending rows whose retry
\* count is strictly under their max retries: every row a job is enqueued for
\* has retry_count < max_retries, so a row at 3 of 3 is never re-enqueued.
C31_ReconciledUnderMaxRetries ==
  [][Reconciled =>
       \A i \in DOMAIN lastTick'.items :
         \A p \in pending :
           p.id = lastTick'.items[i].pendingJobId => p.retry_count < p.max_retries]_vars


\* the daily purge runs in this step
Purged ==
  /\ qcall'.op = "cleanupOldPendingJobs"
  /\ qcall' # qcall \/ pending' # pending

\* C32: the daily purge deletes exactly the pending rows created more than 3
\* days ago, whatever their retry count, and leaves every row created within
\* the last 3 days as it is.
C32_PurgeOlderThanThreeDays ==
  [][Purged =>
       /\ \A p \in pending : p.age > PurgeDays => p \notin pending'
       /\ \A p \in pending : p.age <= PurgeDays => p \in pending'
       /\ pending' \subseteq pending]_vars

\* the purge has just run on a table that held a row older than 3 days with
\* retries left, now gone, and a younger row, still there
C32_Witness ==
  /\ qcall.op = "cleanupOldPendingJobs"
  /\ nextPendingId = 3
  /\ Cardinality(pending) = 1
  /\ \A p \in pending : p.age <= PurgeDays /\ p.age > 0


(* ------------------------- who gets a follow-up job -------------------- *)
\* the 13-minute tick runs in this step
FollowUpTick == lastTick' # lastTick /\ lastTick'.timer = "follow_responses"

\* the users the follow-up processor has campaigns to work on
UsersWithFollowUpWork == {u \in Users : GetActiveCampaignsForUser(u) # {}}

\* C33: each 13-minute tick enqueues exactly one follow-up job per distinct
\* user who has at least one campaign that is active or paused, a user whose
\* only such campaigns are paused included, and none for any other user.
C33_OneFollowUpJobPerUserWithWork ==
  [][FollowUpTick =>
       LET items == lastTick'.items
       IN /\ {items[i].userId : i \in DOMAIN items} = UsersWithFollowUpWork
          /\ \A i, k \in DOMAIN items : items[i].userId = items[k].userId => i = k]_vars


(* ------------------- the deferral branch of the processor -------------- *)
\* job j, a followRequest job, leaves the first part of process in this step
\* with the quota gate evaluated
GateEvaluated(j) ==
  /\ jobs[j].jobType = "followRequest"
  /\ jobs[j].state = "active" /\ jobs[j].pc = "process"
  /\ jobs'[j].pc # "process"
  /\ jobs'[j].gate # "none"

\* C34: the processor records a Pending Job exactly when the gate returns 0
\* (the attempt throws when the insert is refused) and then does nothing else:
\* on that path no session is acquired and no outreach action is made; on
\* every path where the gate returns a positive allowance the run writes no
\* Pending Job.
C34_PendingJobIffGateZero ==
  /\ [][\A j \in JobIds :
          GateEvaluated(j) =>
            /\ jobs'[j].allowance = 0 <=> jobs'[j].gate \in {"deferred", "insertFailed"}
            /\ jobs'[j].allowance > 0 <=> jobs'[j].gate = "run"
            /\ jobs'[j].gate = "deferred" <=> pending' # pending
            /\ jobs'[j].gate = "deferred" =>
                 /\ pending \subseteq pending'
                 /\ Cardinality(pending') = Cardinality(pending) + 1
                 /\ jobs'[j].pc = "return"
            /\ jobs'[j].gate = "insertFailed" => jobs'[j].pc = "throw"
            /\ jobs'[j].gate # "run" =>
                 /\ sessions' = sessions /\ browsers' = browsers
                 /\ nextBrowserId' = nextBrowserId
                 /\ jobs'[j].sub = jobs[j].sub /\ jobs'[j].did = 0
                 /\ connectionsSent' = connectionsSent]_vars
  /\ [][\A j \in JobIds :
          (jobs[j].jobType = "followRequest" /\ jobs[j].pc # "process"
             /\ jobs'[j] # jobs[j] /\ jobs'[j].pc # "process")
            => /\ pending' = pending
               /\ jobs[j].gate # "run" =>
                    /\ jobs'[j].sub = jobs[j].sub /\ jobs'[j].did = jobs[j].did
                    /\ sessions' = sessions /\ browsers' = browsers
                    /\ connectionsSent' = connectionsSent]_vars

\* a run that found nothing left of the day's connections is completed at its
\* first attempt with its pending row written, nothing sent and no session
\* stored for the user
C34_Witness ==
  \E j \in JobIds :
    /\ jobs[j].jobType = "followRequest" /\ jobs[j].state = "completed"
    /\ jobs[j].gate = "deferred" /\ jobs[j].allowance = 0 /\ jobs[j].did = 0
    /\ jobs[j].attemptsMade = 0
    /\ OwnPendingRow(j) # {}
    /\ sessions[jobs[j].userId] = NoRow
    /\ connectionsSent[jobs[j].userId] = 0


(* --------------------- the batch, person by person --------------------- *)
\* followRequest jobs followed through a batch person by person
MaxOutreachJobs == 2

CampaignTypes == {"search", "reactions", "comments", "event", "csv"}

\* the people the campaign's page lists, in order; the last one's card has
\* neither a Follow nor an Invite button
PagePeople == <<"p1", "p2", "p3", "p4">>
WithButton == {"p1", "p2", "p3"}

\* the linkedin_connections rows the campaign starts with: none, rows of
\* earlier runs, rows of an uploaded csv whose urls end with a slash
ExistingRows ==
  { <<>>, <<ConnectionRow("p1")>>, <<ConnectionRow("p1"), ConnectionRow("p2")>>,
    <<ConnectionRow("p1/"), ConnectionRow("p2/")>> }

\* profile_url.endsWith('/') ? profile_url.slice(0, -1) : profile_url
SanitizedUrl(url) ==
  CASE url = "p1/" -> "p1"
    [] url = "p2/" -> "p2"
    [] OTHER -> url

\* the campaign's rows with this profile url
RowsOf(c, url) == {i \in DOMAIN connections[c] : connections[c][i].profile_url = url}

\* .eq('profile_url', url).eq('campaign_id', c).maybeSingle(): data is the row
\* when exactly one row matches and null otherwise (no row, or several rows,
\* which is an error the caller does not read)
ExistingData(c, url) == Cardinality(RowsOf(c, url)) = 1

\* a check that finds a profile recorded however many rows it has
ExistingDataAny(c, url) == RowsOf(c, url) # {}

\* processCsvCampaign's query: the first importLimit rows that are queued or
\* pending, each with the url processCsvProfile looks for in the search results
QueuedProfiles(c, importLimit) ==
  LET ids == SelectSeq([i \in 1..Len(connections[c]) |-> i],
                       LAMBDA i : connections[c][i].status \in {"queued", "pending"})
  IN [k \in 1..Min(Len(ids), importLimit) |->
        [url |-> SanitizedUrl(connections[c][ids[k]].profile_url), id |-> ids[k]]]

\* the while condition of the search, reactions, comments and event loops
WhileHolds(job, c) ==
  /\ job.followed < job.allowance
  /\ campaigns[c].campaign_type \in {"search", "event"}
       => job.followed < campaigns[c].total_profiles
  /\ job.sub[c].elapsed < MaxDurationMs

\* a loop that goes through the list whatever has been done
BreakHoldsTimeOnly(job, c) == job.sub[c].elapsed > MaxDurationMs

\* the test made before each person of the list
BreakHolds(job, c) ==
  IF campaigns[c].campaign_type = "csv" THEN job.sub[c].elapsed > MaxDurationMs
  ELSE job.followed >= job.allowance
         \/ TimeIsUp(campaigns[c].campaign_type, job.sub[c].elapsed)

Unch_Outreach ==
  UNCHANGED <<settings, usage, trial, userSockets, sockets, followUps, pending, nextPendingId, messagesSent,
              throwsLeft, qcall, sessionVars, lastTick>>

\* the while condition holds and the page's people are read; for a csv
\* campaign the queued rows are read instead
ReadPeople(j) ==
  LET job == jobs[j]
      c == job.campaignId
      people == IF campaigns[c].campaign_type = "csv"
                  THEN QueuedProfiles(c, job.allowance)
                  ELSE [i \in 1..Len(PagePeople) |-> [url |-> PagePeople[i], id |-> 0]]
  IN /\ job.state = "active" /\ job.jobType = "followRequest" /\ job.pc = "outer"
     /\ campaigns[c].campaign_type # "csv" => WhileHolds(job, c)
     /\ campaigns[c].campaign_type = "csv" => people # <<>>
     /\ jobs' = [jobs EXCEPT ![j].pc = "inner", ![j].page = people]
     /\ UNCHANGED <<campaigns, connCount, connections, connectionsSent>>
     /\ Unch_Outreach

\* processPersonConnection up to the button: the profile is looked up in
\* linkedin_connections and skipped when it is found, and skipped when its
\* card has no button
CheckPerson(j) ==
  LET job == jobs[j]
      c == job.campaignId
  IN /\ job.state = "active" /\ job.pc = "inner" /\ job.page # <<>>
     /\ ~BreakHolds(job, c)
     /\ jobs' = IF ExistingData(c, Head(job.page).url) \/ Head(job.page).url \notin WithButton
                  THEN [jobs EXCEPT ![j].page = Tail(@)]
                  ELSE [jobs EXCEPT ![j].pc = "person", ![j].person = Head(job.page)]
     /\ UNCHANGED <<campaigns, connCount, connections, connectionsSent>>
     /\ Unch_Outreach

\* the rest of processPersonConnection and of the loop body: the button is
\* clicked, the row inserted (the result of the insert is not read: a table
\* with a unique index refuses a second row for the profile), the activity
\* row written, true returned; a csv row is marked sent; followed++ and
\* updateCampaignProcessedCount(campaign.id, followed)
ConnectPerson(j) ==
  LET job == jobs[j]
      c == job.campaignId
      owner == campaigns[c].user_id
      url == job.person.url
  IN /\ job.state = "active" /\ job.pc = "person"
     /\ \E inserted \in IF RowsOf(c, url) = {} THEN {TRUE} ELSE BOOLEAN :
          LET rows == IF inserted THEN Append(connections[c], ConnectionRow(url))
                      ELSE connections[c]
              marked == IF job.person.id = 0 THEN rows
                        ELSE [rows EXCEPT ![job.person.id].status = "sent"]
          IN /\ connections' = [connections EXCEPT ![c] = marked]
             /\ connCount' = [connCount EXCEPT ![c] = Len(marked)]
     /\ connectionsSent' = [connectionsSent EXCEPT ![owner] = @ + 1]
     /\ jobs' = [jobs EXCEPT ![j].pc = "inner", ![j].page = Tail(@), ![j].person = None,
                             ![j].followed = @ + 1, ![j].did = @ + 1,
                             ![j].invited = Append(@, url),
                             ![j].activity = LogActivity(@, c,
                                Entry("followRequest", "info", "invitation sent",
                                      Attempt(job)))]
     /\ campaigns' = [campaigns EXCEPT ![c].processed_profiles = job.followed + 1]
     /\ Unch_Outreach

\* the loop ends: the while condition fails, no row is queued, the list is
\* through or left by break and there is no next page
PeopleDone(j) ==
  LET job == jobs[j]
      c == job.campaignId
  IN /\ job.jobType = "followRequest"
     /\ \/ /\ job.pc = "outer"
           /\ IF campaigns[c].campaign_type = "csv"
                THEN QueuedProfiles(c, job.allowance) = <<>>
                ELSE ~WhileHolds(job, c)
        \/ job.pc = "inner" /\ (job.page = <<>> \/ BreakHolds(job, c))
     /\ SendFollowRequestsReturn(j)

OutreachRequests ==
  { [jobType |-> "followRequest", userId |-> "u1", campaignId |-> "c1", importLimit |-> n] :
      n \in 1..2 }

InitOutreach ==
  /\ settings = [u \in Users |-> SmallSettings]
  /\ usage = [u \in Users |-> NoRow]
  /\ pending = {}
  /\ nextPendingId = 1
  /\ trial = [u \in Users |-> TRUE]
  /\ userSockets = [u \in Users |-> 0]
  /\ sockets = {}
  /\ throwsLeft = 0
  /\ \E t \in CampaignTypes, rows \in ExistingRows :
       /\ campaigns = [c \in Campaigns |->
                         IF c = "c1"
                           THEN [CampaignRow(c, "active") EXCEPT
                                   !.campaign_type = t, !.processed_profiles = Len(rows)]
                           ELSE CampaignRow(c, "active")]
       /\ connections = [c \in Campaigns |-> IF c = "c1" THEN rows ELSE <<>>]
       /\ connCount = [c \in Campaigns |-> IF c = "c1" THEN Len(rows) ELSE 0]
  /\ followUps = [c \in Campaigns |-> 1..FollowUpsPerCampaign]
  /\ jobs = <<>>
  /\ connectionsSent = [u \in Users |-> 0]
  /\ messagesSent = [u \in Users |-> 0]
  /\ qcall = [op |-> None]
  /\ sessions = [u \in Users |-> NoRow]
  /\ browsers = [u \in Users |-> {}]
  /\ nextBrowserId = 1
  /\ timers = {}
  /\ calls = <<>>
  /\ lastTick = [timer |-> None]

NextOutreach ==
  \/ \E r \in OutreachRequests : SubmitJob(r, MaxOutreachJobs)
  \/ \E w \in Workers, j \in JobIds : Take(w, j)
  \/ \E j \in JobIds : MoveToCompleted(j)
  \/ \E j \in JobIds : FollowRequestProcess(j)
  \/ \E j \in JobIds, c \in Campaigns : CreateSessionFinish(j, c)
  \/ \E j \in JobIds : SendFollowRequestsStart(j)
  \/ \E j \in JobIds : ReadPeople(j)
  \/ \E j \in JobIds : CheckPerson(j)
  \/ \E j \in JobIds : ConnectPerson(j)
  \/ \E j \in JobIds : PeopleDone(j)

SpecOutreach == InitOutreach /\ [][NextOutreach]_vars

\* C35: in one followRequest run, for every campaign type, the number of
\* connection/follow actions performed never exceeds the allowance the gate
\* returned for that run, which never exceeds the requested import limit.
C35_ActionsWithinAllowance ==
  \A j \in JobIds :
    Gated(j) => /\ jobs[j].did <= jobs[j].allowance
                /\ Len(jobs[j].invited) <= jobs[j].allowance
                /\ jobs[j].allowance <= jobs[j].requested
                /\ jobs[j].requested = jobs[j].importLimit

\* a run with an allowance of 2 has used it up and is completed, for a
\* campaign that is not a search campaign
C35_Witness ==
  \E j \in JobIds :
    /\ jobs[j].state = "completed" /\ jobs[j].gate = "run"
    /\ jobs[j].allowance = 2 /\ jobs[j].did = 2
    /\ campaigns[jobs[j].campaignId].campaign_type # "search"


\* job j's run has returned from sendFollowRequests with a candidate of the
\* page, one with a usable button, still without a row
CandidateLeft(j) ==
  /\ jobs[j].jobType = "followRequest" /\ jobs[j].gate = "run"
  /\ jobs[j].state = "completed"
  /\ \E i \in DOMAIN PagePeople :
       PagePeople[i] \in WithButton /\ RowsOf(jobs[j].campaignId, PagePeople[i]) = {}

\* C36: a followRequest run on a search, reactions, comments or event campaign
\* that has a positive allowance, time left and at least one candidate with a
\* usable button that is not yet recorded performs at least one action,
\* however many connections the campaign has recorded already.
C36_RunWithAllowanceActs ==
  \A j \in JobIds :
    (/\ CandidateLeft(j)
     /\ campaigns[jobs[j].campaignId].campaign_type # "csv"
     /\ jobs[j].allowance > 0)
      => jobs[j].did >= 1


\* how often s holds x
RECURSIVE Occurrences(_, _)
Occurrences(s, x) ==
  IF s = <<>> THEN 0
  ELSE (IF Head(s) = x THEN 1 ELSE 0) + Occurrences(Tail(s), x)

RECURSIVE TimesInvited(_, _)
\* the requests the jobs of the queue js have sent to a profile
TimesInvited(js, url) ==
  IF js = <<>> THEN 0 ELSE Occurrences(Head(js).invited, url) + TimesInvited(Tail(js), url)

\* the rows a table holds for a profile
RowCount(rows, url) == Cardinality({k \in DOMAIN rows : rows[k].profile_url = url})

\* C37: within one campaign no profile url is sent a connection/follow
\* request more than once and no second linkedin_connections row is inserted
\* for it, also when two followRequest jobs of the campaign run at the same
\* time and both pass the already-processed check before either inserts.
C37_OneRequestPerProfile ==
  [][\A i \in DOMAIN PagePeople :
       LET url == PagePeople[i]
       IN /\ TimesInvited(jobs', url) > TimesInvited(jobs, url)
               => TimesInvited(jobs', url) <= 1 /\ RowCount(connections["c1"], url) = 0
          /\ RowCount(connections'["c1"], url) > RowCount(connections["c1"], url)
               => RowCount(connections["c1"], url) = 0]_vars


\* C38: a campaign's persisted processed_profiles never decreases and never
\* exceeds the number of connection records of the campaign, under any
\* interleaving of followRequest jobs of the campaign.
C38_ProcessedCountMonotone ==
  /\ [][\A c \in Campaigns :
          campaigns'[c].processed_profiles >= campaigns[c].processed_profiles]_vars
  /\ [](\A c \in Campaigns : campaigns[c].processed_profiles <= Len(connections[c]))


(* ------------------- followRequest jobs of one campaign ---------------- *)
\* the followRequest jobs of campaign c that are in the queue and not finished
\* (waiting, delayed or active)
OutstandingFollowRequests(c) ==
  {j \in JobIds : /\ jobs[j].jobType = "followRequest" /\ jobs[j].campaignId = c
                  /\ jobs[j].state \notin {"completed", "failed"}}

\* the 15-minute tick, or the manual trigger that calls the same method, runs
\* in this step
FollowRequestTick == lastTick' # lastTick /\ lastTick'.timer = "follow_requests"

\* C39: the scheduler never has two followRequest jobs of one campaign
\* outstanding: a 15-minute tick (or manual trigger) enqueues a followRequest
\* job for an active campaign only if no followRequest job of that campaign
\* is waiting or active.
C39_NoSecondJobPerCampaign ==
  [][FollowRequestTick =>
       \A i \in DOMAIN lastTick'.items :
         i \notin lastTick'.failing
           => OutstandingFollowRequests(lastTick'.items[i].campaignId) = {}]_vars


(* ------------------------- SimpleWebsocketGateway ---------------------- *)
\* socket.io connections open at the same time
MaxSockets == 4

\* a handshake whose query has no user_id
NoUserId == ""

SocketIds == 1..MaxSockets

\* a client opens a socket.io connection; handshake.query.user_id is the user
\* or is missing
SocketConnects ==
  \E id \in SocketIds, userId \in Users \cup {NoUserId} :
    /\ \A s \in sockets : s.id # id
    /\ sockets' = sockets \cup {[id |-> id, user_id |-> userId, handled |-> FALSE]}
    /\ UNCHANGED userSockets

\* handleConnection(client): a client without user_id is disconnected (its
\* handleDisconnect does nothing); otherwise userSockets.set(userId, client)
HandleConnection(s) ==
  /\ s \in sockets /\ ~s.handled
  /\ IF s.user_id = NoUserId
       THEN sockets' = sockets \ {s} /\ UNCHANGED userSockets
       ELSE /\ sockets' = (sockets \ {s}) \cup {[s EXCEPT !.handled = TRUE]}
            /\ userSockets' = [userSockets EXCEPT ![s.user_id] = s.id]

\* the client goes away: handleDisconnect(client) deletes the entry of the
\* client's user
HandleDisconnect(s) ==
  /\ s \in sockets /\ s.handled
  /\ sockets' = sockets \ {s}
  /\ userSockets' = IF s.user_id # NoUserId
                      THEN [userSockets EXCEPT ![s.user_id] = 0]
                      ELSE userSockets

\* getConnectedUsers(): the keys of userSockets
GetConnectedUsers == {u \in Users : userSockets[u] # 0}

\* getConnectedUsersCount(): userSockets.size
GetConnectedUsersCount == Cardinality(GetConnectedUsers)

Unch_Gateway ==
  UNCHANGED <<settings, usage, trial, campaigns, connCount, connections, followUps,
              pending, nextPendingId, jobs, connectionsSent, messagesSent, throwsLeft,
              qcall, sessionVars, lastTick>>

NextGateway ==
  \/ SocketConnects /\ Unch_Gateway
  \/ \E s \in sockets : HandleConnection(s) /\ Unch_Gateway
  \/ \E s \in sockets : HandleDisconnect(s) /\ Unch_Gateway

SpecGateway == InitTimeBox /\ [][NextGateway]_vars

\* the users with a socket that is open and has been through handleConnection
UsersWithLiveSocket == {s.user_id : s \in {x \in sockets : x.handled}}

\* C40: the gateway's connected-user table is consistent with the live
\* sockets: a user id is listed as connected if and only if at least one
\* socket of that user is connected, also after the user opens a second
\* socket and the first one disconnects; a connection without a user id is
\* disconnected and never registered.
C40_ConnectedUsersMatchSockets ==
  /\ GetConnectedUsers = UsersWithLiveSocket
  /\ GetConnectedUsersCount = Cardinality(UsersWithLiveSocket)
  /\ \A s \in sockets : s.user_id = NoUserId => ~s.handled

====
